---- MODULE Spec2Model ----
(***************************************************************************)
(* Model of the fault deduplication engine of the Linear integration       *)
(* module: FaultManager (faults/manager.ts), its dedup cache, and the      *)
(* tracker calls createIssue / createComment it awaits.                    *)
(*                                                                         *)
(* One report() invocation is a sequence of synchronous segments separated *)
(* by its awaits; each segment is one action.  Several invocations may be  *)
(* in flight at once.  Time is a clock read by `new Date()`.               *)
(***************************************************************************)
EXTENDS Integers, Sequences, FiniteSets, TLC

---------------------------------------------------------------------------
(* Bounds of the model *)

\* number of report() invocations in one behaviour
MaxCalls == 3
\* last value of the clock
MaxTime == 2
\* the dedupeWindow the caller configures
Window == 1
\* number of report() invocations in a behaviour that records when each
\* fingerprint was reported
MaxTracked == 2
\* number of callbacks registered with the webhook handler
MaxHandlers == 2

---------------------------------------------------------------------------
(* Values *)

\* default of dedupeWindow, in ms
DefaultDedupeWindow == 3600000
\* default of defaultPriority
DefaultPriority == 2

\* the line separator of a stack trace
NL == "NL"

\* Text is a sequence of characters.
\* FaultReport values: two reports that differ only after the first stack
\* line, and one of another message with no stack.
Reports ==
  { [message |-> <<"a">>, hasStack |-> TRUE,  stack |-> <<"x", NL, "p">>],
    [message |-> <<"a">>, hasStack |-> TRUE,  stack |-> <<"x", NL, "q">>],
    [message |-> <<"b">>, hasStack |-> FALSE, stack |-> <<>>] }

\* the configurations a caller passes to the constructor; a defaultPriority
\* or dedupeWindow of 0 is one the caller left out
Configs ==
  [deduplicate : {"true", "false", "undefined"}, dedupeWindow : {Window},
   defaultPriority : {0}]

NoHash == <<>>
NoRecord == [hash |-> NoHash, issueId |-> 0, count |-> 0, lastSeen |-> 0]
NoResult == [kind |-> "none", issueId |-> 0, isDuplicate |-> FALSE, error |-> "none"]

Calls == 1..MaxCalls

VARIABLES
  config,      \* this.config after the constructor
  faultCache,  \* this.faultCache : Map<hash, FaultRecord>
  calls,       \* the report() invocations: position, captured locals, result
  issues,      \* the tracker: issues[i] is the invocation that was handed issue id i
  now,         \* the clock
  lastEvent,   \* history: per fingerprint, the last thing that happened to it
  lastSighting,\* history: per fingerprint, when the cache last recorded it as seen
  serial,      \* history: no two invocations have been in flight together
  cleared,     \* history: clearCache() has been called
  lastReported,\* history: per fingerprint, when report() was last invoked with it
  globalHandler,\* per invocation made through the global handler: how the call went
  probe,       \* a function of the module applied to drawn inputs: inputs and results
  signingSecret,\* LinearWebhookHandler: this.config.signingSecret
  handlers,    \* LinearWebhookHandler: this.handlers : Map<string, handler[]>
  delivery     \* the webhook request the middleware is handling

\* the state of the fault manager with the history the scenarios read
faultVars == <<config, faultCache, calls, issues, now, lastEvent, lastSighting, serial, cleared>>

\* the state a fault manager step leaves alone unless it says otherwise
\* what the callers of the fault manager keep
callerVars == <<lastReported, globalHandler>>

\* the state of the webhook handler and its middleware
hookVars == <<signingSecret, handlers, delivery>>

beyond == <<callerVars, probe, hookVars>>

vars == <<faultVars, beyond>>

---------------------------------------------------------------------------
(* Map operations *)

MapSet(m, k, v) == [x \in (DOMAIN m) \cup {k} |-> IF x = k THEN v ELSE m[x]]
MapDelete(m, k) == [x \in (DOMAIN m) \ {k} |-> m[x]]
EmptyMap == [x \in {} |-> NoRecord]

---------------------------------------------------------------------------
(* FaultManager *)

\* constructor: the defaults applied to the caller's configuration
FaultManagerConfig(c) ==
  [deduplicate  |-> IF c.deduplicate = "undefined" THEN TRUE ELSE c.deduplicate = "true",
   dedupeWindow |-> IF c.dedupeWindow = 0 THEN DefaultDedupeWindow ELSE c.dedupeWindow,
   defaultPriority |-> IF c.defaultPriority = 0 THEN DefaultPriority
                       ELSE c.defaultPriority]

\* String.split('\n')[0]
RECURSIVE FirstLine(_)
FirstLine(s) ==
  IF s = <<>> THEN <<>>
  ELSE IF Head(s) = NL THEN <<>>
  ELSE <<Head(s)>> \o FirstLine(Tail(s))

\* the digest of a text: a value determined by the text, distinct texts
\* giving distinct digests
md5(content) == <<"md5">> \o content

\* generateFaultHash over the whole stack instead of its first line
generateFaultHash_wholeStack(report) ==
  md5(report.message \o <<":">> \o
      (IF report.hasStack THEN report.stack ELSE <<>>))

generateFaultHash(report) ==
  md5(report.message \o <<":">> \o
      (IF report.hasStack THEN FirstLine(report.stack) ELSE <<>>))

\* checkDuplicate with the window compared by >= : a record seen exactly one
\* window ago is already expired
checkDuplicate_ge(cache, window, hash, t) ==
  IF hash \notin DOMAIN cache
  THEN [hit |-> FALSE, record |-> NoRecord, cache |-> cache, found |-> "none"]
  ELSE IF t - cache[hash].lastSeen >= window
  THEN [hit |-> FALSE, record |-> NoRecord, cache |-> MapDelete(cache, hash),
        found |-> "expired"]
  ELSE [hit |-> TRUE, record |-> cache[hash], cache |-> cache, found |-> "live"]

\* checkDuplicate with no expiry: a record that is present is always a hit
checkDuplicate_noExpiry(cache, window, hash, t) ==
  IF hash \notin DOMAIN cache
  THEN [hit |-> FALSE, record |-> NoRecord, cache |-> cache, found |-> "none"]
  ELSE [hit |-> TRUE, record |-> cache[hash], cache |-> cache, found |-> "live"]

\* checkDuplicate leaving an expired record in the cache
checkDuplicate_keepExpired(cache, window, hash, t) ==
  IF hash \notin DOMAIN cache
  THEN [hit |-> FALSE, record |-> NoRecord, cache |-> cache, found |-> "none"]
  ELSE IF t - cache[hash].lastSeen > window
  THEN [hit |-> FALSE, record |-> NoRecord, cache |-> cache, found |-> "expired"]
  ELSE [hit |-> TRUE, record |-> cache[hash], cache |-> cache, found |-> "live"]

\* checkDuplicate sweeping every expired record out of the cache
checkDuplicate_sweep(cache, window, hash, t) ==
  LET kept == [h \in {x \in DOMAIN cache : t - cache[x].lastSeen <= window}
                 |-> cache[h]]
  IN IF hash \in DOMAIN kept
     THEN [hit |-> TRUE, record |-> kept[hash], cache |-> kept, found |-> "live"]
     ELSE [hit |-> FALSE, record |-> NoRecord, cache |-> kept,
           found |-> IF hash \in DOMAIN cache THEN "expired" ELSE "none"]

\* checkDuplicate: the record found (hit), and the cache it leaves behind
checkDuplicate(cache, window, hash, t) ==
  IF hash \notin DOMAIN cache
  THEN [hit |-> FALSE, record |-> NoRecord, cache |-> cache, found |-> "none"]
  ELSE IF t - cache[hash].lastSeen > window
  THEN [hit |-> FALSE, record |-> NoRecord, cache |-> MapDelete(cache, hash),
        found |-> "expired"]
  ELSE [hit |-> TRUE, record |-> cache[hash], cache |-> cache, found |-> "live"]

\* dedupCheck with the deduplicate option ignored
dedupCheck_always(cfg, cache, hash, t) ==
  checkDuplicate(cache, cfg.dedupeWindow, hash, t)

\* the dedup check of report(): skipped when deduplication is disabled
dedupCheck(cfg, cache, hash, t) ==
  IF cfg.deduplicate
  THEN checkDuplicate(cache, cfg.dedupeWindow, hash, t)
  ELSE [hit |-> FALSE, record |-> NoRecord, cache |-> cache, found |-> "skipped"]

\* getPriority with the case of severity 'error' missing
getPriority_noErrorCase(cfg, severity) ==
  CASE severity = "critical" -> 1
    [] severity = "warning" -> 3
    [] OTHER -> cfg.defaultPriority

\* getPriority: the tracker priority of a severity
getPriority(cfg, severity) ==
  CASE severity = "critical" -> 1
    [] severity = "error" -> 2
    [] severity = "warning" -> 3
    [] OTHER -> cfg.defaultPriority

\* the priority field of the issueInput report() hands to createIssue
issueInputPriority(cfg, report) == getPriority(cfg, report.severity)

\* touch with lastSeen left as it was
touch_countOnly(record, t) == [record EXCEPT !.count = @ + 1]

\* existing.count++; existing.lastSeen = new Date()
touch(record, t) == [record EXCEPT !.count = @ + 1, !.lastSeen = t]

\* the record report() caches after a confirmed creation
newRecord(hash, issueId, t) ==
  [hash |-> hash, issueId |-> issueId, count |-> 1, lastSeen |-> t]

Idle ==
  [pc |-> "idle", hash |-> NoHash, existingId |-> 0, commentCount |-> 0,
   issueCalls |-> 0, commentCalls |-> 0, logged |-> <<>>, result |-> NoResult]

\* report(), first segment: hash, dedup check, then the tracker call is issued
reportStart(self, hash, chk, t) ==
  IF chk.hit
  THEN [self EXCEPT !.pc = "awaitComment", !.hash = hash,
          !.existingId = chk.record.issueId,
          !.commentCount = touch(chk.record, t).count,
          !.commentCalls = @ + 1,
          !.logged = Append(@, "info")]
  ELSE [self EXCEPT !.pc = "awaitCreateIssue", !.hash = hash,
          !.issueCalls = @ + 1]

\* cacheAfterStart caching eagerly: on a miss a record is written before the
\* ticket exists
cacheAfterStart_eager(cache, hash, chk, t) ==
  IF chk.hit THEN MapSet(chk.cache, hash, touch(chk.record, t))
  ELSE MapSet(chk.cache, hash, newRecord(hash, 0, t))

\* cacheAfterStart with the update of a duplicate written to a copy of the
\* record: the cache keeps the record as it was
cacheAfterStart_copy(cache, hash, chk, t) == chk.cache

\* the cache after the first segment of report()
cacheAfterStart(cache, hash, chk, t) ==
  IF chk.hit THEN MapSet(chk.cache, hash, touch(chk.record, t)) ELSE chk.cache

\* commentSettled with a failed comment sent a second time
commentSettled_retry(self, ok) ==
  [self EXCEPT !.pc = "resolved",
     !.commentCalls = IF ok THEN @ ELSE @ + 1,
     !.logged = IF ok THEN @ ELSE Append(@, "warn"),
     !.result = [kind |-> "value", issueId |-> self.existingId,
                 isDuplicate |-> TRUE, error |-> "none"]]

\* commentSettled with the catch missing: a failed comment rejects the report
commentSettled_rethrow(self, ok) ==
  IF ok
  THEN [self EXCEPT !.pc = "resolved",
          !.result = [kind |-> "value", issueId |-> self.existingId,
                      isDuplicate |-> TRUE, error |-> "none"]]
  ELSE [self EXCEPT !.pc = "rejected",
          !.result = [kind |-> "error", issueId |-> 0, isDuplicate |-> FALSE,
                      error |-> "GatewayError"]]

\* commentSettled returning no issueId when the comment failed
commentSettled_noId(self, ok) ==
  [self EXCEPT !.pc = "resolved",
     !.logged = IF ok THEN @ ELSE Append(@, "warn"),
     !.result = [kind |-> "value", issueId |-> IF ok THEN self.existingId ELSE 0,
                 isDuplicate |-> TRUE, error |-> "none"]]

\* report(), duplicate path after the createComment await
commentSettled(self, ok) ==
  [self EXCEPT !.pc = "resolved",
     !.logged = IF ok THEN @ ELSE Append(@, "warn"),
     !.result = [kind |-> "value", issueId |-> self.existingId,
                 isDuplicate |-> TRUE, error |-> "none"]]

\* report(), fresh path after `await this.client.createIssue(issueInput)`
createIssueSettled(self, ok) ==
  IF ok THEN [self EXCEPT !.pc = "awaitIssue"]
  ELSE [self EXCEPT !.pc = "rejected", !.logged = Append(@, "error"),
          !.result = [kind |-> "error", issueId |-> 0, isDuplicate |-> FALSE,
                      error |-> "GatewayError"]]

\* report(), fresh path after `await issue.issue`
\* outcome: "issue" (createdIssue with id), "none" (no createdIssue), "reject"
issueSettled(self, outcome, id) ==
  IF outcome = "issue"
  THEN [self EXCEPT !.pc = "resolved", !.logged = Append(@, "info"),
          !.result = [kind |-> "value", issueId |-> id, isDuplicate |-> FALSE,
                      error |-> "none"]]
  ELSE [self EXCEPT !.pc = "rejected", !.logged = Append(@, "error"),
          !.result = [kind |-> "error", issueId |-> 0, isDuplicate |-> FALSE,
                      error |-> IF outcome = "none" THEN "NoIssueError"
                                ELSE "GatewayError"]]

\* cacheAfterIssue with the missing-issue check after the cache write
cacheAfterIssue_always(cache, hash, outcome, id, t) ==
  MapSet(cache, hash, newRecord(hash, id, t))

\* cacheAfterIssue with the cache write forgotten
cacheAfterIssue_noInsert(cache, hash, outcome, id, t) == cache

\* cacheAfterIssue keeping a record that is already there
cacheAfterIssue_keepFirst(cache, hash, outcome, id, t) ==
  IF outcome = "issue" /\ hash \notin DOMAIN cache
  THEN MapSet(cache, hash, newRecord(hash, id, t)) ELSE cache

\* cacheAfterIssue of an invocation that clearCache() has cancelled
cacheAfterIssue_unlessCleared(cache, hash, outcome, id, t) ==
  IF outcome = "issue" /\ ~cleared
  THEN MapSet(cache, hash, newRecord(hash, id, t)) ELSE cache

\* the cache after the last segment of the fresh path
cacheAfterIssue(cache, hash, outcome, id, t) ==
  IF outcome = "issue" THEN MapSet(cache, hash, newRecord(hash, id, t)) ELSE cache

\* cacheCleared leaving the records in place
cacheCleared_noop(cache) == cache

\* clearCache()
cacheCleared(cache) == EmptyMap

---------------------------------------------------------------------------
(* History *)

\* every fingerprint a report of the model can have
Hashes == {generateFaultHash(r) : r \in Reports}

\* kinds of lastEvent: "none", "start" (an invocation made its dedup check),
\* "created" (an invocation's creation was confirmed), "failed" (an
\* invocation's creation failed), "clear" (clearCache())
Ev(kind, c) == [kind |-> kind, call |-> c]

InFlight(c) == calls[c].pc \in {"awaitComment", "awaitCreateIssue", "awaitIssue"}
Settled(c) == calls[c].pc \in {"resolved", "rejected"}

\* how long ago fingerprint h was last sighted, against the window w:
\* "never", "within" (no more than w ago) or "beyond" (more than w ago)
Seen(h, w) ==
  IF lastSighting[h] < 0 THEN "never"
  ELSE IF now - lastSighting[h] > w THEN "beyond" ELSE "within"

---------------------------------------------------------------------------
(* Initial state and actions *)

\* no function is being probed
NoProbe == [stage |-> "none"]

\* the state beyond the fault manager, before anything has happened
\* an invocation that was not made through the global handler
NotCalled == [outcome |-> "notCalled", catchAttached |-> FALSE, logged |-> 0]

\* callers that have not called yet
CallerInit ==
  /\ lastReported = [h \in Hashes |-> -1]
  /\ globalHandler = [c \in Calls |-> NotCalled]

\* no callback registered
NoHandlers == [k \in {} |-> <<>>]

\* no webhook request yet
NoDelivery ==
  [stage |-> "idle", raw |-> <<>>, signed |-> FALSE,
   signature |-> [len |-> 0, chars |-> <<"", <<>>>>],
   event |-> [type |-> <<>>, action |-> <<>>], started |-> <<>>,
   result |-> "none", status |-> 0, warned |-> 0, errors |-> 0]

\* a webhook handler with no secret, no callback and no request
HookInit ==
  /\ signingSecret = ""
  /\ handlers = NoHandlers
  /\ delivery = NoDelivery

BeyondInit ==
  /\ CallerInit
  /\ probe = NoProbe
  /\ HookInit

\* a fault manager just constructed
FaultInit ==
  /\ config \in {FaultManagerConfig(c) : c \in Configs}
  /\ faultCache = EmptyMap
  /\ calls = [c \in Calls |-> Idle]
  /\ issues = <<>>
  /\ now = 0
  /\ lastEvent = [h \in Hashes |-> Ev("none", 0)]
  /\ lastSighting = [h \in Hashes |-> -1]
  /\ serial = TRUE
  /\ cleared = FALSE

Init == BeyondInit /\ FaultInit

\* report(r), first segment, as invocation c; invocations are numbered in
\* starting order
ReportStep(c, r) ==
  /\ calls[c].pc = "idle"
  /\ \A d \in Calls : d < c => calls[d].pc # "idle"
  /\ LET hash == generateFaultHash(r)
         chk  == dedupCheck(config, faultCache, hash, now)
     IN /\ calls' = [calls EXCEPT ![c] = reportStart(@, hash, chk, now)]
        /\ faultCache' = cacheAfterStart(faultCache, hash, chk, now)
        /\ lastEvent' = [lastEvent EXCEPT ![hash] = Ev("start", c)]
        /\ lastSighting' = IF chk.hit THEN [lastSighting EXCEPT ![hash] = now]
                           ELSE lastSighting
  /\ serial' = (serial /\ \A d \in Calls : ~InFlight(d))
  /\ UNCHANGED <<config, issues, now, cleared>>

\* the caller invokes report(r)
Report(c, r) == ReportStep(c, r) /\ UNCHANGED beyond

\* CreateCommentSettles behind a queue: an invocation resumes only when no
\* earlier one is in flight
CreateCommentSettles_queued(c, ok) ==
  /\ calls[c].pc = "awaitComment"
  /\ \A d \in Calls : d < c => ~InFlight(d)
  /\ calls' = [calls EXCEPT ![c] = commentSettled(@, ok)]
  /\ UNCHANGED <<config, faultCache, issues, now, lastEvent, lastSighting, serial, cleared>>
  /\ UNCHANGED beyond

\* the createComment call of invocation c resolves (ok) or rejects
CreateCommentSettles(c, ok) ==
  /\ calls[c].pc = "awaitComment"
  /\ calls' = [calls EXCEPT ![c] = commentSettled(@, ok)]
  /\ UNCHANGED <<config, faultCache, issues, now, lastEvent, lastSighting, serial, cleared>>
  /\ UNCHANGED beyond

\* the createIssue call of invocation c resolves (ok) or rejects
CreateIssueSettles(c, ok) ==
  /\ calls[c].pc = "awaitCreateIssue"
  /\ calls' = [calls EXCEPT ![c] = createIssueSettled(@, ok)]
  /\ lastEvent' = IF ok THEN lastEvent
                  ELSE [lastEvent EXCEPT ![calls[c].hash] = Ev("failed", c)]
  /\ UNCHANGED <<config, faultCache, issues, now, lastSighting, serial, cleared>>
  /\ UNCHANGED beyond

\* report(), last segment of the fresh path, of invocation c
IssueStep(c, outcome) ==
  /\ calls[c].pc = "awaitIssue"
  /\ LET id == Len(issues) + 1
         hash == calls[c].hash
     IN /\ calls' = [calls EXCEPT ![c] = issueSettled(@, outcome, id)]
        /\ faultCache' = cacheAfterIssue(faultCache, hash, outcome, id, now)
        /\ issues' = IF outcome = "issue" THEN Append(issues, c) ELSE issues
        /\ lastEvent' = [lastEvent EXCEPT ![hash] =
                           Ev(IF outcome = "issue" THEN "created" ELSE "failed", c)]
        /\ lastSighting' = IF outcome = "issue"
                           THEN [lastSighting EXCEPT ![hash] = now]
                           ELSE lastSighting
  /\ UNCHANGED <<config, now, serial, cleared>>

\* the created issue of invocation c arrives, is missing, or its fetch rejects
IssueSettles(c, outcome) == IssueStep(c, outcome) /\ UNCHANGED beyond

\* clearCache()
ClearStep ==
  /\ faultCache' = cacheCleared(faultCache)
  /\ lastEvent' = [h \in Hashes |-> Ev("clear", 0)]
  /\ cleared' = TRUE
  /\ UNCHANGED <<config, calls, issues, now, lastSighting, serial>>

\* the caller invokes clearCache()
ClearCache == ClearStep /\ UNCHANGED beyond

\* the clock advances
Tick ==
  /\ now < MaxTime
  /\ now' = now + 1
  /\ UNCHANGED <<config, faultCache, calls, issues, lastEvent, lastSighting, serial, cleared>>
  /\ UNCHANGED beyond

Next ==
  \/ \E c \in Calls, r \in Reports : Report(c, r)
  \/ \E c \in Calls, ok \in BOOLEAN : CreateCommentSettles(c, ok)
  \/ \E c \in Calls, ok \in BOOLEAN : CreateIssueSettles(c, ok)
  \/ \E c \in Calls, outcome \in {"issue", "none", "reject"} : IssueSettles(c, outcome)
  \/ ClearCache
  \/ Tick

Spec == Init /\ [][Next]_vars

---------------------------------------------------------------------------
(* Vocabulary of the properties *)

\* in this step invocation c starts, with fingerprint h
Starts(c, h) == calls[c].pc = "idle" /\ calls'[c].pc # "idle" /\ calls'[c].hash = h

\* invocation record r went down the duplicate path / the fresh path
TookDuplicatePath(r) == r.commentCalls = 1 /\ r.issueCalls = 0
TookFreshPath(r) == r.issueCalls = 1 /\ r.commentCalls = 0

Returned(c) == calls[c].pc = "resolved"
Rejected(c) == calls[c].pc = "rejected"
ReturnedDuplicate(c) == Returned(c) /\ calls[c].result.isDuplicate
ReturnedFresh(c) == Returned(c) /\ ~calls[c].result.isDuplicate

---------------------------------------------------------------------------
(* C1: with deduplication enabled, when a report's creation is confirmed   *)
(* and the next thing that happens to its fingerprint is a second report   *)
(* starting no more than the window after that completion, the first has   *)
(* returned isDuplicate=false and the second goes down the duplicate path  *)
(* holding the first one's issueId, which is what it returns with          *)
(* isDuplicate=true.                                                       *)

C1_SecondStarts ==
  \A a \in Calls, b \in Calls, h \in Hashes :
    ( /\ config.deduplicate
      /\ Starts(b, h)
      /\ lastEvent[h] = Ev("created", a)
      /\ Seen(h, config.dedupeWindow) = "within" )
    => /\ ReturnedFresh(a)
       /\ TookDuplicatePath(calls'[b])
       /\ calls'[b].pc = "awaitComment"
       /\ calls'[b].existingId = calls[a].result.issueId

C1_SecondReturns ==
  \A b \in Calls :
    (calls[b].pc = "awaitComment" /\ calls'[b].pc # "awaitComment")
    => /\ calls'[b].pc = "resolved"
       /\ calls'[b].result.isDuplicate
       /\ calls'[b].result.issueId = calls[b].existingId

C1_DedupWindow == [][C1_SecondStarts /\ C1_SecondReturns]_vars

\* two reports in sequence, the second one window after the first completed,
\* returned the same issueId, the second as a duplicate
C1_Witness ==
  /\ config.deduplicate /\ serial /\ ~cleared
  /\ ReturnedFresh(1) /\ ReturnedDuplicate(2)
  /\ calls[1].hash = calls[2].hash
  /\ calls[2].result.issueId = calls[1].result.issueId
  /\ calls[3].pc = "idle"
  /\ now = config.dedupeWindow
  /\ faultCache[calls[2].hash].lastSeen = now
  /\ faultCache[calls[2].hash].count = 2

---------------------------------------------------------------------------
(* C2: every invocation issues exactly one tracker call, when it starts:   *)
(* createComment exactly when it returns isDuplicate=true, createIssue     *)
(* otherwise, also when the call fails; never both, none, or a second one. *)

---------------------------------------------------------------------------
(* C3: a report that starts more than the window after its fingerprint's   *)
(* last sighting goes down the fresh path; when its creation is confirmed  *)
(* it returns isDuplicate=false with the id of a new ticket, and the       *)
(* fingerprint's cache record is the new one: that issueId, count 1.       *)

C3_StartsBeyondWindow ==
  \A b \in Calls, h \in Hashes :
    (Starts(b, h) /\ Seen(h, config.dedupeWindow) = "beyond")
    => /\ TookFreshPath(calls'[b])
       /\ calls'[b].pc = "awaitCreateIssue"

C3_CreationConfirmed ==
  \A b \in Calls :
    (calls[b].pc = "awaitIssue" /\ calls'[b].pc = "resolved")
    => LET id == calls'[b].result.issueId
           h == calls[b].hash
       IN /\ ~calls'[b].result.isDuplicate
          /\ id \notin 1..Len(issues)
          /\ issues' = Append(issues, b)
          /\ id = Len(issues')
          /\ h \in DOMAIN faultCache => faultCache[h].issueId # id
          /\ h \in DOMAIN faultCache'
          /\ faultCache'[h] = [hash |-> h, issueId |-> id, count |-> 1, lastSeen |-> now]

C3_TtlExpiry == [][C3_StartsBeyondWindow /\ C3_CreationConfirmed]_vars

\* serialized reports of one fingerprint, never cleared: the second found the
\* first one's record expired and replaced it by its own
C3_Witness ==
  /\ config.deduplicate /\ serial /\ ~cleared
  /\ ReturnedFresh(1) /\ ReturnedFresh(2)
  /\ calls[1].hash = calls[2].hash
  /\ calls[1].result.issueId # calls[2].result.issueId
  /\ faultCache[calls[2].hash] =
       [hash |-> calls[2].hash, issueId |-> calls[2].result.issueId,
        count |-> 1, lastSeen |-> now]

---------------------------------------------------------------------------
(* C4: an invocation on the duplicate path never rejects; it returns       *)
(* isDuplicate=true with the issueId of the existing ticket of its         *)
(* fingerprint, whether its createComment succeeded or failed.             *)

C4_CommentFailureIsolated ==
  \A c \in Calls :
    TookDuplicatePath(calls[c])
    => /\ ~Rejected(c)
       /\ calls[c].existingId \in 1..Len(issues)
       /\ calls[issues[calls[c].existingId]].hash = calls[c].hash
       /\ Settled(c) =>
            calls[c].result = [kind |-> "value", issueId |-> calls[c].existingId,
                               isDuplicate |-> TRUE, error |-> "none"]

\* two duplicates of one ticket, one whose comment failed and one whose
\* comment succeeded, returned the same result
C4_Witness ==
  \E c \in Calls, d \in Calls :
    /\ ReturnedDuplicate(c) /\ calls[c].logged = <<"info", "warn">>
    /\ ReturnedDuplicate(d) /\ calls[d].logged = <<"info">>
    /\ calls[c].result = calls[d].result

---------------------------------------------------------------------------
(* C5: when createIssue rejects, report() rejects with the gateway's error *)
(* and the cache is left as it was; with the calls made in sequence the    *)
(* fingerprint then has no record, and the next report of it goes down the *)
(* fresh path again.                                                       *)

C5_CreateIssueRejects ==
  \A a \in Calls :
    (calls[a].pc = "awaitCreateIssue" /\ calls'[a].pc = "rejected")
    => /\ calls'[a].result = [kind |-> "error", issueId |-> 0,
                              isDuplicate |-> FALSE, error |-> "GatewayError"]
       /\ faultCache' = faultCache

C5_NextReportFresh ==
  \A a \in Calls, b \in Calls, h \in Hashes :
    (Starts(b, h) /\ serial /\ config.deduplicate /\ lastEvent[h] = Ev("failed", a))
    => /\ TookFreshPath(calls'[b])
       /\ calls'[b].pc = "awaitCreateIssue"

C5_NoRecordAfterFailure ==
  \A a \in Calls, h \in Hashes :
    (serial /\ config.deduplicate /\ lastEvent[h] = Ev("failed", a))
    => h \notin DOMAIN faultCache

C5_CreationFailurePropagates ==
  /\ [][C5_CreateIssueRejects /\ C5_NextReportFresh]_vars
  /\ []C5_NoRecordAfterFailure

\* a rejected report followed, in sequence, by a report of the same
\* fingerprint that is creating a ticket again
C5_Witness ==
  /\ config.deduplicate /\ serial
  /\ Rejected(1) /\ calls[1].result.error = "GatewayError"
  /\ calls[2].hash = calls[1].hash
  /\ calls[2].pc = "awaitCreateIssue"

---------------------------------------------------------------------------
(* C6: every record of the cache is filed under its own fingerprint and    *)
(* holds the issueId the tracker handed to an invocation of that           *)
(* fingerprint whose creation was confirmed and which returned that id.    *)

C6_RecordsPointAtCreatedTickets ==
  \A h \in DOMAIN faultCache :
    LET r == faultCache[h]
    IN /\ r.hash = h
       /\ r.issueId \in 1..Len(issues)
       /\ LET c == issues[r.issueId]
          IN /\ calls[c].hash = h
             /\ ReturnedFresh(c)
             /\ calls[c].result.issueId = r.issueId

\* concurrent reports of one fingerprint: one failed, one is still pending,
\* and the record in the cache, written after a clearCache(), is a third one's
C6_Witness ==
  \E h \in DOMAIN faultCache, c \in Calls, d \in Calls :
    /\ cleared /\ ~serial
    /\ Rejected(c) /\ calls[c].hash = h
    /\ calls[d].pc = "awaitIssue" /\ calls[d].hash = h

---------------------------------------------------------------------------
(* C7: with deduplication enabled, the calls serialized and the cache      *)
(* never cleared, a report of a fingerprint that already has a ticket      *)
(* issues createIssue, and has a second ticket confirmed, only when more   *)
(* than the window has passed since the fingerprint's last sighting.       *)

HasTicket(h) == \E i \in DOMAIN issues : calls[issues[i]].hash = h

C7_SecondCreationStarts ==
  \A b \in Calls, h \in Hashes :
    ( /\ Starts(b, h)
      /\ serial' /\ ~cleared /\ config.deduplicate
      /\ HasTicket(h)
      /\ TookFreshPath(calls'[b]) )
    => Seen(h, config.dedupeWindow) = "beyond"

C7_SecondCreationConfirmed ==
  \A b \in Calls, h \in Hashes :
    ( /\ calls[b].pc = "awaitIssue" /\ calls'[b].pc = "resolved"
      /\ calls[b].hash = h
      /\ serial /\ ~cleared /\ config.deduplicate
      /\ HasTicket(h) )
    => Seen(h, config.dedupeWindow) = "beyond"

C7_OneTicketPerWindow ==
  [][C7_SecondCreationStarts /\ C7_SecondCreationConfirmed]_vars

\* serialized reports of one fingerprint: a ticket, a duplicate, and after
\* the window a second ticket
C7_Witness ==
  /\ config.deduplicate /\ serial /\ ~cleared
  /\ ReturnedFresh(1) /\ ReturnedDuplicate(2) /\ ReturnedFresh(3)
  /\ calls[1].hash = calls[2].hash /\ calls[2].hash = calls[3].hash

---------------------------------------------------------------------------
(* C8: when a report starts while the last thing that happened to its      *)
(* fingerprint is the dedup check of another report that went down the     *)
(* fresh path and is still waiting for its creation, it goes down the      *)
(* fresh path too.  Reports that return from the fresh path return         *)
(* isDuplicate=false with tickets of their own, and as long as nothing     *)
(* else happens to the fingerprint the cache holds the record, count 1, of *)
(* the creation that was confirmed last.                                   *)

C8_BothCheckBeforeCreation ==
  \A a \in Calls, b \in Calls, h \in Hashes :
    ( /\ Starts(b, h)
      /\ lastEvent[h] = Ev("start", a)
      /\ TookFreshPath(calls[a]) )
    => /\ calls[a].pc \in {"awaitCreateIssue", "awaitIssue"}
       /\ TookFreshPath(calls'[b])
       /\ calls'[b].pc = "awaitCreateIssue"

C8_TicketsOfTheirOwn ==
  \A a \in Calls, b \in Calls :
    (a # b /\ Returned(a) /\ TookFreshPath(calls[a])
           /\ Returned(b) /\ TookFreshPath(calls[b]))
    => /\ ReturnedFresh(a) /\ ReturnedFresh(b)
       /\ calls[a].result.issueId # calls[b].result.issueId
       /\ issues[calls[a].result.issueId] = a
       /\ issues[calls[b].result.issueId] = b

C8_LastCreationIsCached ==
  \A x \in Calls, h \in Hashes :
    lastEvent[h] = Ev("created", x)
    => /\ h \in DOMAIN faultCache
       /\ faultCache[h] = [hash |-> h, issueId |-> calls[x].result.issueId,
                           count |-> 1, lastSeen |-> lastSighting[h]]
       /\ \A i \in DOMAIN issues :
            calls[issues[i]].hash = h => i <= calls[x].result.issueId

C8_FirstSightingRace ==
  /\ [][C8_BothCheckBeforeCreation]_vars
  /\ [](C8_TicketsOfTheirOwn /\ C8_LastCreationIsCached)

\* two reports of one fingerprint raced at time 0: the second one's creation
\* was confirmed first, and the cache holds the record of the first
C8_Witness ==
  /\ config.deduplicate /\ ~cleared /\ ~serial /\ now = 0
  /\ ReturnedFresh(1) /\ ReturnedFresh(2)
  /\ calls[1].hash = calls[2].hash
  /\ issues = <<2, 1>>
  /\ faultCache[calls[1].hash].issueId = calls[1].result.issueId
  /\ faultCache[calls[1].hash].count = 1

---------------------------------------------------------------------------
(* C9: with deduplication disabled no invocation issues createComment or   *)
(* returns isDuplicate=true; every invocation that returns holds a ticket  *)
(* of its own, so there are as many tickets as returned reports.           *)

C9_DisabledDedup ==
  ~config.deduplicate
  => /\ \A c \in Calls :
          /\ calls[c].commentCalls = 0
          /\ calls[c].pc # "awaitComment"
          /\ Returned(c) =>
               /\ ReturnedFresh(c)
               /\ calls[c].result.issueId \in 1..Len(issues)
               /\ issues[calls[c].result.issueId] = c
     /\ Len(issues) = Cardinality({c \in Calls : Returned(c)})

\* every invocation of the model reported the same fingerprint and returned:
\* as many tickets as reports
C9_Witness ==
  /\ ~config.deduplicate
  /\ \A c \in Calls : ReturnedFresh(c) /\ calls[c].hash = calls[1].hash
  /\ Len(issues) = MaxCalls
  /\ now = 0

---------------------------------------------------------------------------
(* C10: clearCache() leaves the cache empty, and a report that starts      *)
(* while the last thing that happened to its fingerprint is a clearCache() *)
(* goes down the fresh path; what the fresh path returns is                *)
(* isDuplicate=false.                                                      *)

C10_StartsAfterClear ==
  \A b \in Calls, h \in Hashes :
    (Starts(b, h) /\ lastEvent[h] = Ev("clear", 0))
    => /\ TookFreshPath(calls'[b])
       /\ calls'[b].pc = "awaitCreateIssue"

C10_FreshReturns ==
  \A b \in Calls :
    (TookFreshPath(calls[b]) /\ ~Returned(b) /\ calls'[b].pc = "resolved")
    => ~calls'[b].result.isDuplicate

C10_EmptyAfterClear ==
  \A h \in Hashes : lastEvent[h] = Ev("clear", 0) => h \notin DOMAIN faultCache

---------------------------------------------------------------------------
(* C11: with deduplication enabled, a report whose dedup check is a hit    *)
(* found a record with now - lastSeen <= dedupeWindow; a record with       *)
(* now - lastSeen > dedupeWindow is removed by the check, which reports    *)
(* not found (the report creates a ticket); a record with                  *)
(* now - lastSeen = dedupeWindow is still a hit and stays in the cache.    *)

C11_HitIsWithinWindow ==
  \A b \in Calls, h \in Hashes :
    (Starts(b, h) /\ calls'[b].pc = "awaitComment")
    => /\ h \in DOMAIN faultCache
       /\ now - faultCache[h].lastSeen <= config.dedupeWindow
       /\ calls'[b].existingId = faultCache[h].issueId

C11_ExpiredIsRemoved ==
  \A b \in Calls, h \in Hashes :
    ( /\ Starts(b, h) /\ config.deduplicate
      /\ h \in DOMAIN faultCache
      /\ now - faultCache[h].lastSeen > config.dedupeWindow )
    => /\ h \notin DOMAIN faultCache'
       /\ calls'[b].pc = "awaitCreateIssue"

C11_BoundaryIsHit ==
  \A b \in Calls, h \in Hashes :
    ( /\ Starts(b, h) /\ config.deduplicate
      /\ h \in DOMAIN faultCache
      /\ now - faultCache[h].lastSeen = config.dedupeWindow )
    => /\ calls'[b].pc = "awaitComment"
       /\ h \in DOMAIN faultCache'

C11_CheckRespectsWindow ==
  [][C11_HitIsWithinWindow /\ C11_ExpiredIsRemoved /\ C11_BoundaryIsHit]_vars

\* a ticket, then a report of the same fingerprint more than the window
\* later: its check removed the record, and it is creating a ticket
C11_Witness ==
  /\ config.deduplicate /\ serial /\ ~cleared
  /\ ReturnedFresh(1)
  /\ calls[2].pc = "awaitCreateIssue" /\ calls[2].hash = calls[1].hash
  /\ calls[3].pc = "idle"
  /\ Seen(calls[1].hash, config.dedupeWindow) = "beyond"
  /\ calls[1].hash \notin DOMAIN faultCache

---------------------------------------------------------------------------
(* The fault manager with the time of every report recorded *)

\* the caller invokes report(r), and the time is noted
ReportTracked(c, r) ==
  /\ c <= MaxTracked
  /\ ReportStep(c, r)
  /\ lastReported' = [lastReported EXCEPT ![generateFaultHash(r)] = now]
  /\ UNCHANGED <<globalHandler, probe, hookVars>>

NextEvict ==
  \/ \E c \in Calls, r \in Reports : ReportTracked(c, r)
  \/ \E c \in Calls, ok \in BOOLEAN : CreateCommentSettles(c, ok)
  \/ \E c \in Calls, ok \in BOOLEAN : CreateIssueSettles(c, ok)
  \/ \E c \in Calls, outcome \in {"issue", "none", "reject"} : IssueSettles(c, outcome)
  \/ ClearCache
  \/ Tick

SpecEvict == Init /\ [][NextEvict]_vars

\* the fingerprints reported no more than the window ago / at any time so far
ReportedWithinWindow ==
  {h \in Hashes : lastReported[h] >= 0 /\ now - lastReported[h] <= config.dedupeWindow}
ReportedSoFar == {h \in Hashes : lastReported[h] >= 0}

---------------------------------------------------------------------------
(* C12, as claimed: in every reachable state the number of records in the  *)
(* cache is at most the number of distinct fingerprints reported within    *)
(* the preceding window.                                                   *)

C12_BoundedByWindow ==
  Cardinality(DOMAIN faultCache) <= Cardinality(ReportedWithinWindow)

(* C12, amended: in every reachable state every record of the cache        *)
(* belongs to a fingerprint that has been reported at some time so far and *)
(* for which a ticket was created, so the number of records is at most the *)
(* number of such fingerprints, however long ago they were reported.       *)

C12_BoundedByReportedSoFar ==
  /\ DOMAIN faultCache \subseteq {h \in ReportedSoFar : HasTicket(h)}
  /\ Cardinality(DOMAIN faultCache) <= Cardinality(ReportedSoFar)

\* two fingerprints, each reported once and given a ticket, and both records
\* still cached when the last report is more than the window ago
C12_Witness ==
  /\ Cardinality(DOMAIN faultCache) = 2
  /\ ReportedWithinWindow = {}
  /\ \A h \in DOMAIN faultCache : now - faultCache[h].lastSeen > config.dedupeWindow

---------------------------------------------------------------------------
(* The fingerprint of two drawn reports, and the second reported after the *)
(* first *)

\* the fields of a FaultReport that are not its message or stack
Extras ==
  { [context |-> "undefined", metadata |-> "undefined", userId |-> "undefined",
     url |-> "undefined"],
    [context |-> "c", metadata |-> "undefined", userId |-> "u", url |-> "undefined"],
    [context |-> "d", metadata |-> "m", userId |-> "undefined", url |-> "l"] }

\* FaultReport values with every field
FullReports ==
  { [message |-> m, hasStack |-> st.has, stack |-> st.text,
     severity |-> sev, context |-> e.context, metadata |-> e.metadata,
     userId |-> e.userId, url |-> e.url] :
      m \in {<<"a">>, <<"b">>},
      st \in { [has |-> FALSE, text |-> <<>>],
               [has |-> TRUE, text |-> <<>>],
               [has |-> TRUE, text |-> <<"x">>],
               [has |-> TRUE, text |-> <<"x", NL, "p">>],
               [has |-> TRUE, text |-> <<"x", NL, "q">>],
               [has |-> TRUE, text |-> <<NL, "x">>] },
      sev \in {"undefined", "critical", "warning"},
      e \in Extras }

\* a manager constructed with deduplication left at its default
DefaultDedupConfig ==
  FaultManagerConfig([deduplicate |-> "undefined", dedupeWindow |-> Window,
                      defaultPriority |-> 0])

InitFingerprint ==
  /\ FaultInit /\ config = DefaultDedupConfig
  /\ CallerInit /\ HookInit
  /\ \E r1 \in FullReports, r2 \in FullReports :
       probe = [stage |-> "input", r1 |-> r1, r2 |-> r2, key1 |-> NoHash,
                key2 |-> NoHash, cache |-> EmptyMap, at |-> 0, second |-> NoRecord,
                hit |-> FALSE]

\* generateFaultHash is applied to both reports
Fingerprint ==
  /\ probe.stage = "input"
  /\ probe' = [probe EXCEPT !.stage = "keyed",
                             !.key1 = generateFaultHash(probe.r1),
                             !.key2 = generateFaultHash(probe.r2)]
  /\ UNCHANGED <<faultVars, callerVars, hookVars>>

\* report(r1) on an empty cache at time 0, its creation confirmed as ticket 1
FirstReported ==
  /\ probe.stage = "keyed"
  /\ LET chk == dedupCheck(config, EmptyMap, probe.key1, 0)
         started == cacheAfterStart(EmptyMap, probe.key1, chk, 0)
     IN probe' = [probe EXCEPT !.stage = "first",
                    !.cache = cacheAfterIssue(started, probe.key1, "issue", 1, 0)]
  /\ UNCHANGED <<faultVars, callerVars, hookVars>>

\* report(r2) makes its dedup check at time t, within the window
SecondReported(t) ==
  /\ probe.stage = "first"
  /\ LET chk == dedupCheck(config, probe.cache, probe.key2, t)
     IN probe' = [probe EXCEPT !.stage = "second", !.at = t, !.hit = chk.hit,
                    !.second = chk.record,
                    !.cache = cacheAfterStart(probe.cache, probe.key2, chk, t)]
  /\ UNCHANGED <<faultVars, callerVars, hookVars>>

NextFingerprint ==
  \/ Fingerprint
  \/ FirstReported
  \/ \E t \in 0..Window : SecondReported(t)

SpecFingerprint == InitFingerprint /\ [][NextFingerprint]_vars

\* the first line of a report's stack, an absent stack having an empty one
FirstStackLine(r) == IF r.hasStack THEN FirstLine(r.stack) ELSE <<>>

SameMessageAndFirstLine(r1, r2) ==
  r1.message = r2.message /\ FirstStackLine(r1) = FirstStackLine(r2)

---------------------------------------------------------------------------
(* C13: two reports with equal message and equal first stack line (an      *)
(* absent stack counting as an empty first line) have the same dedup key,  *)
(* whatever their severity, context, metadata, userId, url and remaining   *)
(* stack lines; the second, reported within the window after the first     *)
(* one's ticket, hits the first one's record and is merged into ticket 1.  *)

C13_FingerprintDeterminism ==
  (probe.stage # "input" /\ SameMessageAndFirstLine(probe.r1, probe.r2))
  => /\ probe.key1 = probe.key2
     /\ probe.stage = "second" =>
          /\ probe.hit
          /\ probe.second.issueId = 1
          /\ DOMAIN probe.cache = {probe.key1}
          /\ probe.cache[probe.key1].count = 2

\* a report with no stack and one whose stack starts with an empty line,
\* differing in severity, context and url too, merged at the end of the window
C13_Witness ==
  /\ probe.stage = "second" /\ probe.at = Window
  /\ ~probe.r1.hasStack /\ probe.r2.stack = <<NL, "x">>
  /\ probe.r1.severity # probe.r2.severity
  /\ probe.r1.context # probe.r2.context
  /\ probe.r1.url # probe.r2.url
  /\ probe.hit /\ probe.cache[probe.key2].issueId = 1

---------------------------------------------------------------------------
(* The priority of the ticket created for a drawn report by a manager      *)
(* constructed with a drawn defaultPriority *)

\* the severities of a report at run time: absent, the three the type
\* names, and another string
Severities == {"undefined", "critical", "error", "warning", "info"}

\* the defaultPriority a caller configures: 0 (left out) or 1..4
ConfiguredPriorities == 0..4

InitPriority ==
  /\ FaultInit /\ config = DefaultDedupConfig
  /\ CallerInit /\ HookInit
  /\ \E r \in FullReports, sev \in Severities, p \in ConfiguredPriorities :
       probe = [stage |-> "input", report |-> [r EXCEPT !.severity = sev],
                configured |-> p, config |-> DefaultDedupConfig, priority |-> 0]

\* new FaultManager({..., defaultPriority})
ManagerConstructed ==
  /\ probe.stage = "input"
  /\ probe' = [probe EXCEPT !.stage = "constructed",
                  !.config = FaultManagerConfig(
                     [deduplicate |-> "undefined", dedupeWindow |-> Window,
                      defaultPriority |-> probe.configured])]
  /\ UNCHANGED <<faultVars, callerVars, hookVars>>

\* report(): the issueInput is built and handed to createIssue
IssueInputSent ==
  /\ probe.stage = "constructed"
  /\ probe' = [probe EXCEPT !.stage = "sent",
                  !.priority = issueInputPriority(probe.config, probe.report)]
  /\ UNCHANGED <<faultVars, callerVars, hookVars>>

NextPriority == ManagerConstructed \/ IssueInputSent

SpecPriority == InitPriority /\ [][NextPriority]_vars

---------------------------------------------------------------------------
(* C14: the priority sent with a created ticket is 1 for severity          *)
(* critical, 2 for error, 3 for warning, and for any other or absent       *)
(* severity the configured defaultPriority, which is 2 when the caller     *)
(* configured none.                                                        *)

C14_PriorityMapping ==
  probe.stage = "sent"
  => LET sev == probe.report.severity
     IN /\ sev = "critical" => probe.priority = 1
        /\ sev = "error" => probe.priority = 2
        /\ sev = "warning" => probe.priority = 3
        /\ sev \notin {"critical", "error", "warning"} =>
             probe.priority = IF probe.configured = 0 THEN 2 ELSE probe.configured

\* a report of severity error sent with priority 2 by a manager whose
\* configured default is 4
C14_Witness ==
  /\ probe.stage = "sent"
  /\ probe.report.severity = "error" /\ probe.configured = 4
  /\ probe.priority = 2

---------------------------------------------------------------------------
(* The global handler: errors handed to the function createGlobalHandler()  *)
(* returns *)

\* Error values: a message and, possibly, a stack
Errors == Reports

\* reportOfError with the severity left out
reportOfError_noSeverity(error, context) ==
  [message |-> error.message, hasStack |-> error.hasStack, stack |-> error.stack,
   context |-> context, severity |-> "undefined"]
\* the report reportError(error, context) passes to report()
reportOfError(error, context) ==
  [message |-> error.message, hasStack |-> error.hasStack, stack |-> error.stack,
   context |-> context, severity |-> "error"]

\* handlerInvoked with the .catch() left out
handlerInvoked_noCatch == [outcome |-> "returned", catchAttached |-> FALSE, logged |-> 0]

\* the handler's call: reportError(error) is started, a .catch() is attached
\* to its promise, and the handler returns
handlerInvoked == [outcome |-> "returned", catchAttached |-> TRUE, logged |-> 0]

\* the .catch() callback: the failure is logged
failureCaught(h) == [h EXCEPT !.logged = @ + 1]

\* the function returned by createGlobalHandler() is called with an error
HandlerCalled(c, error) ==
  /\ c <= MaxTracked
  /\ ReportStep(c, reportOfError(error, "undefined"))
  /\ globalHandler' = [globalHandler EXCEPT ![c] = handlerInvoked]
  /\ UNCHANGED <<lastReported, probe, hookVars>>

\* the promise of reportError() has rejected and its .catch() callback runs
CatchRuns(c) ==
  /\ calls[c].pc = "rejected"
  /\ globalHandler[c].catchAttached
  /\ globalHandler[c].logged = 0
  /\ globalHandler' = [globalHandler EXCEPT ![c] = failureCaught(@)]
  /\ UNCHANGED <<faultVars, lastReported, probe, hookVars>>

NextGlobalHandler ==
  \/ \E c \in Calls, error \in Errors : HandlerCalled(c, error)
  \/ \E c \in Calls, ok \in BOOLEAN : CreateCommentSettles(c, ok)
  \/ \E c \in Calls, ok \in BOOLEAN : CreateIssueSettles(c, ok)
  \/ \E c \in Calls, outcome \in {"issue", "none", "reject"} : IssueSettles(c, outcome)
  \/ \E c \in Calls : CatchRuns(c)
  \/ ClearCache
  \/ Tick

SpecGlobalHandler == Init /\ [][NextGlobalHandler]_vars

\* invocation c went through the global handler
ViaHandler(c) == globalHandler[c].outcome # "notCalled"

\* a rejection nobody handles
UnhandledRejection(c) == Rejected(c) /\ ~globalHandler[c].catchAttached

---------------------------------------------------------------------------
(* C15: a call of the function createGlobalHandler() returns has returned  *)
(* to its caller, without throwing, as soon as the report is started;      *)
(* whatever the tracker call does, the report's rejection is never         *)
(* unhandled: the handler's catch is attached, runs once the report has    *)
(* rejected, and logs the failure; it logs nothing when the report         *)
(* returns.                                                                *)

C15_GlobalHandlerSwallows ==
  \A c \in Calls :
    ViaHandler(c)
    => /\ globalHandler[c].outcome = "returned"
       /\ calls[c].pc # "idle"
       /\ ~UnhandledRejection(c)
       /\ globalHandler[c].logged \in {0, 1}
       /\ globalHandler[c].logged = 1 => Rejected(c)
       /\ (Rejected(c) /\ globalHandler[c].logged = 0) => ENABLED CatchRuns(c)

\* two errors through the handler: one report found no issue created, one's
\* createIssue rejected; both failures were caught and logged
C15_Witness ==
  /\ ViaHandler(1) /\ ViaHandler(2)
  /\ Rejected(1) /\ calls[1].result.error = "NoIssueError"
  /\ Rejected(2) /\ calls[2].result.error = "GatewayError"
  /\ globalHandler[1].logged = 1 /\ globalHandler[2].logged = 1

---------------------------------------------------------------------------
(* LinearWebhookHandler (webhooks/handler.ts) and its Express middleware    *)
(* (webhooks/middleware.ts): values and functions *)

\* characters of a hex SHA-256 digest
HexLen == 64

\* event types and actions of the tracker, as text
EventTypes == {<<"Issue">>, <<"Comment">>}
EventActions == {<<"create">>, <<"update">>}
Wildcard == <<"*">>

\* `${event.type}.${event.action}`
actionKey(type, action) == type \o <<".">> \o action

\* the keys a caller registers callbacks under
Keys ==
  EventTypes \cup {actionKey(t, a) : t \in EventTypes, a \in EventActions}
             \cup {Wildcard}

\* the callbacks a caller registers
Callbacks == {"f", "g"}

\* what a callback does when invoked: returns, throws, or returns a promise
\* that settles later
Behaviours == {"returns", "throws", "awaits"}

\* white space in a JSON text
SP == " "

\* the JSON text of a payload, with `gap` after every colon and comma
jsonText(type, action, gap) ==
  <<"{", "type", ":">> \o gap \o type \o <<",">> \o gap \o
  <<"action", ":">> \o gap \o action \o <<"}">>

RECURSIVE StripSpace(_)
StripSpace(text) ==
  IF text = <<>> THEN <<>>
  ELSE IF Head(text) = SP THEN StripSpace(Tail(text))
  ELSE <<Head(text)>> \o StripSpace(Tail(text))

\* the value of a member of a JSON object text without white space
valueOf(tokens, key) ==
  LET i == CHOOSE j \in 1..Len(tokens) : tokens[j] = key IN <<tokens[i + 2]>>

\* express.json(): req.body is the parsed request body
parseJSON(raw) ==
  LET tokens == StripSpace(raw)
  IN [type |-> valueOf(tokens, "type"), action |-> valueOf(tokens, "action")]

\* JSON.stringify(payload): members in order, no white space
stringifyJSON(payload) == jsonText(payload.type, payload.action, <<>>)

\* A signature string is its length and its characters.
\* createHmac('sha256', secret).update(text).digest('hex'): HexLen characters
\* determined by secret and text, distinct inputs giving distinct digests
hmacHex(secret, text) == [len |-> HexLen, chars |-> <<secret, text>>]

\* a string of n characters that is no digest
Junk(n) == [len |-> n, chars |-> <<"", <<>>>>]

\* crypto.timingSafeEqual(Buffer.from(a), Buffer.from(b)): throws a
\* RangeError when the byte lengths differ
timingSafeEqual(a, b) ==
  IF a.len # b.len THEN "RangeError"
  ELSE IF a = b THEN "true" ELSE "false"

\* verifySignature with a missing secret treated as a failed verification
verifySignature_strict(secret, payload, signature) ==
  IF secret = ""
  THEN [answer |-> "false", warned |-> 1]
  ELSE [answer |-> timingSafeEqual(signature, hmacHex(secret, payload)), warned |-> 0]

\* verifySignature(payload, signature): "true", "false" or the error thrown,
\* and the warnings logged
verifySignature(secret, payload, signature) ==
  IF secret = ""
  THEN [answer |-> "true", warned |-> 1]
  ELSE [answer |-> timingSafeEqual(signature, hmacHex(secret, payload)), warned |-> 0]

\* this.handlers.get(key) || []
handlersOf(h, key) == IF key \in DOMAIN h THEN h[key] ELSE <<>>

\* on(eventType, handler)
registered(h, key, cb) == MapSet(h, key, Append(handlersOf(h, key), cb))

\* the registrations under a key: the callback at each position
registrations(h, key) ==
  [i \in 1..Len(handlersOf(h, key)) |->
     [key |-> key, pos |-> i, cb |-> handlersOf(h, key)[i]]]

\* allHandlers with every handler of the event's type, whatever its action
allHandlers_anyAction(h, event) ==
  registrations(h, event.type)
    \o registrations(h, actionKey(event.type, <<"create">>))
    \o registrations(h, actionKey(event.type, <<"update">>))
    \o registrations(h, Wildcard)

\* allHandlers: specific, action and wildcard handlers, in this order
allHandlers(h, event) ==
  registrations(h, event.type)
    \o registrations(h, actionKey(event.type, event.action))
    \o registrations(h, Wildcard)

\* a handler invoked inside the try of process(): it returned, it threw
\* (caught and logged), or the promise it returned is pending
invoked(reg, behaviour) ==
  [key |-> reg.key, pos |-> reg.pos, cb |-> reg.cb,
   state |-> CASE behaviour = "returns" -> "done"
               [] behaviour = "throws" -> "failed"
               [] OTHER -> "pending"]

\* the number of handlers of a dispatch in a state
Count(started, state) == Cardinality({i \in DOMAIN started : started[i].state = state})

\* processStarted awaiting each handler before it invokes the next: the
\* handlers behind the first pending one have not been started
processStarted_sequential(secret, h, payload, signed, signature, beh) ==
  LET check == IF signed /\ signature.len > 0
               THEN verifySignature(secret, stringifyJSON(payload), signature)
               ELSE [answer |-> "skipped", warned |-> 0]
      event == [type |-> payload.type, action |-> payload.action]
      all == allHandlers(h, event)
      reached == {i \in 1..Len(all) : \A j \in 1..(i - 1) : beh[j] # "awaits"}
      started == [i \in 1..Cardinality(reached) |-> invoked(all[i], beh[i])]
  IN IF check.answer \in {"false", "RangeError"}
     THEN [stage |-> "settled", event |-> NoDelivery.event, started |-> <<>>,
           result |-> IF check.answer = "false" THEN "InvalidSignature"
                      ELSE "RangeError",
           warned |-> check.warned, errors |-> 0]
     ELSE [stage |-> "dispatched", event |-> event, started |-> started,
           result |-> "pending", warned |-> check.warned,
           errors |-> Count(started, "failed")]

\* processStarted verifying whenever a secret is configured, with whatever
\* signature came
processStarted_verifyAlways(secret, h, payload, signed, signature, beh) ==
  LET check == IF (signed /\ signature.len > 0) \/ secret # ""
               THEN verifySignature(secret, stringifyJSON(payload), signature)
               ELSE [answer |-> "skipped", warned |-> 0]
      event == [type |-> payload.type, action |-> payload.action]
      all == allHandlers(h, event)
      started == [i \in 1..Len(all) |-> invoked(all[i], beh[i])]
  IN IF check.answer \in {"false", "RangeError"}
     THEN [stage |-> "settled", event |-> NoDelivery.event, started |-> <<>>,
           result |-> IF check.answer = "false" THEN "InvalidSignature"
                      ELSE "RangeError",
           warned |-> check.warned, errors |-> 0]
     ELSE [stage |-> "dispatched", event |-> event, started |-> started,
           result |-> "pending", warned |-> check.warned,
           errors |-> Count(started, "failed")]

\* process(payload, signature) up to its await: the signature check, the
\* event, and every matching handler invoked
processStarted(secret, h, payload, signed, signature, beh) ==
  LET check == IF signed /\ signature.len > 0
               THEN verifySignature(secret, stringifyJSON(payload), signature)
               ELSE [answer |-> "skipped", warned |-> 0]
      event == [type |-> payload.type, action |-> payload.action]
      all == allHandlers(h, event)
      started == [i \in 1..Len(all) |-> invoked(all[i], beh[i])]
  IN IF check.answer \in {"false", "RangeError"}
     THEN [stage |-> "settled", event |-> NoDelivery.event, started |-> <<>>,
           result |-> IF check.answer = "false" THEN "InvalidSignature"
                      ELSE "RangeError",
           warned |-> check.warned, errors |-> 0]
     ELSE [stage |-> "dispatched", event |-> event, started |-> started,
           result |-> "pending", warned |-> check.warned,
           errors |-> Count(started, "failed")]

\* callbackSettled with the catch around the handler missing: a rejection
\* rejects process()
callbackSettled_rethrow(d, i, ok) ==
  IF ok THEN [d EXCEPT !.started[i].state = "done"]
  ELSE [d EXCEPT !.started[i].state = "failed", !.stage = "settled",
                 !.result = "HandlerError"]

\* the promise of handler i settles: a rejection is caught and logged
callbackSettled(d, i, ok) ==
  IF ok THEN [d EXCEPT !.started[i].state = "done"]
  ELSE [d EXCEPT !.started[i].state = "failed", !.errors = @ + 1]

\* the middleware's answer to the way process() settled
responseStatus(result) ==
  IF result = "resolved" THEN 200
  ELSE IF result = "InvalidSignature" THEN 401
  ELSE 500

\* the number of callbacks registered
Registrations(h) == Cardinality({<<k, i>> \in Keys \X (1..MaxHandlers) :
                                   i <= Len(handlersOf(h, k))})

\* the secrets a handler is constructed with: none, or the sender's
SenderSecret == "k"
Secrets == {"", SenderSecret}

\* the linear-signature headers a request can carry: none, an empty one,
\* the sender's digest of the raw body, the digest of the re-serialized
\* body, a digest under another secret, and strings of other lengths
SignaturesOf(raw) ==
  { [signed |-> FALSE, value |-> Junk(0)],
    [signed |-> TRUE, value |-> Junk(0)],
    [signed |-> TRUE, value |-> hmacHex(SenderSecret, raw)],
    [signed |-> TRUE, value |-> hmacHex(SenderSecret, stringifyJSON(parseJSON(raw)))],
    [signed |-> TRUE, value |-> hmacHex("other", raw)],
    [signed |-> TRUE, value |-> Junk(HexLen)],
    [signed |-> TRUE, value |-> Junk(17)],
    [signed |-> TRUE, value |-> Junk(HexLen + 1)] }

---------------------------------------------------------------------------
(* The webhook handler: initial state and actions *)

InitWebhook ==
  /\ FaultInit /\ config = DefaultDedupConfig
  /\ CallerInit
  /\ probe = NoProbe
  /\ signingSecret \in Secrets
  /\ handlers = NoHandlers
  /\ delivery = NoDelivery

\* the caller registers cb under key: on(key, cb), onAny(cb) for the wildcard
On(key, cb) ==
  /\ Registrations(handlers) < MaxHandlers
  /\ handlers' = registered(handlers, key, cb)
  /\ UNCHANGED <<faultVars, callerVars, probe, signingSecret, delivery>>

\* a request arrives at the middleware, which calls process(req.body, header);
\* a later request overwrites all that an earlier one left, so a behaviour
\* follows one request
Deliver(raw, sig, beh) ==
  /\ delivery.stage = "idle"
  /\ DOMAIN beh = DOMAIN allHandlers(handlers, parseJSON(raw))
  /\ LET p == processStarted(signingSecret, handlers, parseJSON(raw),
                             sig.signed, sig.value, beh)
     IN delivery' = [stage |-> p.stage, raw |-> raw, signed |-> sig.signed,
                     signature |-> sig.value, event |-> p.event,
                     started |-> p.started, result |-> p.result, status |-> 0,
                     warned |-> p.warned, errors |-> p.errors]
  /\ UNCHANGED <<faultVars, callerVars, probe, signingSecret, handlers>>

\* the promise returned by the i-th invoked handler resolves (ok) or rejects
CallbackSettles(i, ok) ==
  /\ delivery.stage = "dispatched"
  /\ i \in DOMAIN delivery.started
  /\ delivery.started[i].state = "pending"
  /\ delivery' = callbackSettled(delivery, i, ok)
  /\ UNCHANGED <<faultVars, callerVars, probe, signingSecret, handlers>>

\* Promise.all resolves once every handler has settled, and process() with it
ProcessResolves ==
  /\ delivery.stage = "dispatched"
  /\ Count(delivery.started, "pending") = 0
  /\ delivery' = [delivery EXCEPT !.stage = "settled", !.result = "resolved"]
  /\ UNCHANGED <<faultVars, callerVars, probe, signingSecret, handlers>>

\* the middleware answers the request
Respond ==
  /\ delivery.stage = "settled"
  /\ delivery' = [delivery EXCEPT !.stage = "responded",
                                  !.status = responseStatus(delivery.result)]
  /\ UNCHANGED <<faultVars, callerVars, probe, signingSecret, handlers>>

\* Dispatch: callbacks under every key, requests of every event, unsigned or
\* signed by the sender
CompactBodies == {jsonText(t, a, <<>>) : t \in EventTypes, a \in EventActions}

SenderSignatures(raw) ==
  { [signed |-> FALSE, value |-> Junk(0)],
    [signed |-> TRUE, value |-> hmacHex(SenderSecret, raw)] }

NextWebhook ==
  \/ \E key \in Keys, cb \in Callbacks : On(key, cb)
  \/ \E raw \in CompactBodies, n \in 0..MaxHandlers :
       \E sig \in SenderSignatures(raw), beh \in [1..n -> Behaviours] :
         Deliver(raw, sig, beh)
  \/ \E i \in 1..MaxHandlers, ok \in BOOLEAN : CallbackSettles(i, ok)
  \/ ProcessResolves
  \/ Respond

SpecWebhook == InitWebhook /\ [][NextWebhook]_vars

\* Verification: requests with every kind of body and signature header,
\* callbacks under the type key and the wildcard
SignedBodies ==
  { jsonText(<<"Issue">>, <<"create">>, <<>>),
    jsonText(<<"Issue">>, <<"create">>, <<SP>>),
    jsonText(<<"Comment">>, <<"update">>, <<>>),
    jsonText(<<"Comment">>, <<"update">>, <<SP>>) }

NextSignature ==
  \/ \E key \in {<<"Issue">>, Wildcard}, cb \in Callbacks : On(key, cb)
  \/ \E raw \in SignedBodies, n \in 0..MaxHandlers :
       \E sig \in SignaturesOf(raw), beh \in [1..n -> Behaviours] :
         Deliver(raw, sig, beh)
  \/ \E i \in 1..MaxHandlers, ok \in BOOLEAN : CallbackSettles(i, ok)
  \/ ProcessResolves
  \/ Respond

SpecSignature == InitWebhook /\ [][NextSignature]_vars

---------------------------------------------------------------------------
(* Vocabulary of the webhook properties *)

\* in this step process() passes the signature check and invokes the handlers
Dispatches == delivery.stage = "idle" /\ delivery'.stage = "dispatched"

\* the keys that match an event
MatchingKeys(event) == {event.type, actionKey(event.type, event.action), Wildcard}

\* how many times the registration at position i under key k was invoked
Invocations(started, k, i) ==
  Cardinality({j \in DOMAIN started : started[j].key = k /\ started[j].pos = i})

\* the signature the sender computes for a delivered request
ValidSignature(d) == hmacHex(SenderSecret, d.raw)

---------------------------------------------------------------------------
(* C16: when an event is dispatched, every registration under the event's  *)
(* type, under its 'type.action' and under '*' is invoked exactly once,    *)
(* with that event and with the callback registered there; no registration *)
(* under another key is invoked, and nothing more is invoked later for     *)
(* that event.                                                             *)

C16_MatchingInvokedOnce ==
  Dispatches
  => LET event == delivery'.event
         started == delivery'.started
     IN /\ event = parseJSON(delivery'.raw)
        /\ \A k \in Keys, i \in 1..MaxHandlers :
             IF k \in MatchingKeys(event) /\ i <= Len(handlersOf(handlers, k))
             THEN /\ Invocations(started, k, i) = 1
                  /\ \A j \in DOMAIN started :
                       (started[j].key = k /\ started[j].pos = i)
                       => started[j].cb = handlers[k][i]
             ELSE Invocations(started, k, i) = 0

C16_NothingInvokedLater ==
  delivery.stage # "idle"
  => /\ DOMAIN delivery'.started = DOMAIN delivery.started
     /\ \A j \in DOMAIN delivery.started :
          /\ delivery'.started[j].key = delivery.started[j].key
          /\ delivery'.started[j].pos = delivery.started[j].pos
          /\ delivery'.started[j].cb = delivery.started[j].cb
     /\ delivery'.event = delivery.event

C16_DispatchByKey == [][C16_MatchingInvokedOnce /\ C16_NothingInvokedLater]_vars

\* f under Issue.create and g under Issue.update; an Issue create event was
\* answered after invoking f alone
C16_Witness ==
  /\ handlersOf(handlers, <<"Issue", ".", "create">>) = <<"f">>
  /\ handlersOf(handlers, <<"Issue", ".", "update">>) = <<"g">>
  /\ delivery.stage = "responded"
  /\ delivery.event = [type |-> <<"Issue">>, action |-> <<"create">>]
  /\ Len(delivery.started) = 1 /\ delivery.started[1].cb = "f"

---------------------------------------------------------------------------
(* C17: a callback that throws or rejects stops nothing: at dispatch every *)
(* matching registration is invoked whichever of them throw, a rejection   *)
(* leaves the other handlers and the dispatch as they are, every failure   *)
(* is logged, process() resolves once no handler is pending, and the       *)
(* middleware then answers 200.                                            *)

C17_AllInvokedDespiteThrow ==
  Dispatches
  => \A k \in MatchingKeys(delivery'.event) :
       \A i \in 1..Len(handlersOf(handlers, k)) :
         Invocations(delivery'.started, k, i) = 1

C17_RejectionLeavesOthers ==
  \A i \in DOMAIN delivery.started :
    (delivery.started[i].state = "pending" /\ delivery'.started[i].state = "failed")
    => /\ delivery'.stage = "dispatched"
       /\ delivery'.result = "pending"
       /\ \A j \in DOMAIN delivery.started :
            j # i => delivery'.started[j] = delivery.started[j]

C17_DispatchNeverFails ==
  delivery.stage # "idle"
  => /\ delivery.errors = Count(delivery.started, "failed")
     /\ delivery.result \in {"pending", "resolved"}
     /\ delivery.stage = "dispatched" =>
          /\ delivery.result = "pending"
          /\ Count(delivery.started, "pending") = 0 => ENABLED ProcessResolves
     /\ delivery.stage = "settled" =>
          /\ delivery.result = "resolved"
          /\ Count(delivery.started, "pending") = 0
          /\ ENABLED Respond
     /\ delivery.stage = "responded" =>
          /\ delivery.result = "resolved"
          /\ delivery.status = 200

C17_CallbackFailureIsolated ==
  /\ [][C17_AllInvokedDespiteThrow /\ C17_RejectionLeavesOthers]_vars
  /\ []C17_DispatchNeverFails

\* two callbacks matched a signed event; the first failed, the second did
\* not, the failure was logged and the request was answered 200
C17_Witness ==
  /\ signingSecret = SenderSecret /\ delivery.signed
  /\ delivery.stage = "responded" /\ delivery.status = 200
  /\ Len(delivery.started) = 2
  /\ delivery.started[1].state = "failed"
  /\ delivery.started[2].state = "done"
  /\ delivery.errors = 1

---------------------------------------------------------------------------
(* C18: with a signing secret configured, a request that carries a         *)
(* signature, of any length, other than the HMAC of its payload makes      *)
(* process() fail with 'Invalid webhook signature' with no callback        *)
(* invoked, and the middleware answers it 401.                             *)

\* the HMAC of the payload process() is handed, under the configured secret
PayloadSignature(d) == hmacHex(signingSecret, stringifyJSON(parseJSON(d.raw)))

CarriesInvalidSignature(d) ==
  /\ d.stage # "idle"
  /\ d.signed /\ d.signature.len > 0
  /\ d.signature # PayloadSignature(d)

C18_InvalidSignatureIs401 ==
  (signingSecret # "" /\ CarriesInvalidSignature(delivery))
  => /\ delivery.result = "InvalidSignature"
     /\ delivery.started = <<>>
     /\ delivery.stage = "responded" => delivery.status = 401

---------------------------------------------------------------------------
(* C19: with no signing secret configured, verifySignature answers true    *)
(* and logs a warning for every payload and every signature value; every   *)
(* request, whatever header it carries, is dispatched to the registrations *)
(* matching its event and answered 200, the warning being logged whenever  *)
(* process() verified a signature.                                         *)

C19_VerificationPasses ==
  \A raw \in SignedBodies : \A sig \in SignaturesOf(raw) :
    verifySignature("", stringifyJSON(parseJSON(raw)), sig.value)
      = [answer |-> "true", warned |-> 1]

C19_Dispatched ==
  (signingSecret = "" /\ delivery.stage = "idle" /\ delivery'.stage # "idle")
  => /\ delivery'.stage = "dispatched"
     /\ delivery'.event = parseJSON(delivery'.raw)
     /\ \A k \in Keys, i \in 1..MaxHandlers :
          Invocations(delivery'.started, k, i) =
            IF k \in MatchingKeys(delivery'.event) /\ i <= Len(handlersOf(handlers, k))
            THEN 1 ELSE 0

C19_NeverRejected ==
  (signingSecret = "" /\ delivery.stage # "idle")
  => /\ delivery.result \in {"pending", "resolved"}
     /\ delivery.warned = IF delivery.signed /\ delivery.signature.len > 0
                          THEN 1 ELSE 0
     /\ delivery.stage = "responded" => delivery.status = 200

C19_NoSecretPasses ==
  /\ [][C19_Dispatched]_vars
  /\ [](C19_VerificationPasses /\ C19_NeverRejected)

\* no secret: a request signed 'invalid-signature' was answered 200 after a
\* warning, its event having reached a callback registered under its type
C19_Witness ==
  /\ signingSecret = ""
  /\ delivery.signed /\ delivery.signature = Junk(17)
  /\ delivery.warned = 1
  /\ delivery.stage = "responded" /\ delivery.status = 200
  /\ \E j \in DOMAIN delivery.started :
       delivery.started[j].key = delivery.event.type

---------------------------------------------------------------------------
(* C20: with a signing secret configured, a request whose signature is the *)
(* HMAC-SHA256 of its raw body under that secret passes the check, is      *)
(* dispatched and is answered 200, whatever the raw body: also when its    *)
(* bytes differ from the re-serialization of the parsed JSON.              *)

SignedOverRawBody(d) ==
  /\ d.stage # "idle"
  /\ d.signed
  /\ d.signature = hmacHex(signingSecret, d.raw)

C20_RawBodySignatureAccepted ==
  (signingSecret # "" /\ SignedOverRawBody(delivery))
  => /\ delivery.result \in {"pending", "resolved"}
     /\ delivery.event = parseJSON(delivery.raw)
     /\ delivery.stage = "responded" => delivery.status = 200

---------------------------------------------------------------------------
(* reportError(error, context) beside report() of the report the claim     *)
(* writes out, on the same manager in the same state *)

\* the first segment of report(): the dedup decision, the cache it leaves,
\* the invocation waiting on the tracker call it issued, and the priority of
\* the issueInput when that call is createIssue
reportOutcome(cfg, cache, report, t) ==
  LET hash == generateFaultHash(report)
      chk == dedupCheck(cfg, cache, hash, t)
  IN [hit |-> chk.hit,
      cache |-> cacheAfterStart(cache, hash, chk, t),
      call |-> reportStart(Idle, hash, chk, t),
      priority |-> IF chk.hit THEN 0 ELSE issueInputPriority(cfg, report)]

\* reportError(error, context)
reportErrorOutcome(cfg, cache, error, context, t) ==
  reportOutcome(cfg, cache, reportOfError(error, context), t)

\* the caches a manager can hold when the error arrives: none, or a record of
\* the error's fingerprint last seen at time 0
CachesFor(error) ==
  LET hash == generateFaultHash(reportOfError(error, "undefined"))
  IN {EmptyMap, MapSet(EmptyMap, hash, newRecord(hash, 1, 0))}

NoOutcome == [hit |-> FALSE, cache |-> EmptyMap, call |-> Idle, priority |-> 0]

InitReportError ==
  /\ FaultInit /\ config = DefaultDedupConfig
  /\ CallerInit /\ HookInit
  /\ \E error \in Errors, context \in {"undefined", "c"},
        p \in ConfiguredPriorities, dedup \in {"true", "false"}, t \in 0..MaxTime :
       \E cache \in CachesFor(error) :
         probe = [stage |-> "input", error |-> error, context |-> context,
                  config |-> FaultManagerConfig(
                     [deduplicate |-> dedup, dedupeWindow |-> Window,
                      defaultPriority |-> p]),
                  cache |-> cache, at |-> t,
                  viaReportError |-> NoOutcome, viaReport |-> NoOutcome]

\* the caller invokes reportError(error, context)
ReportErrorCalled ==
  /\ probe.stage = "input"
  /\ probe' = [probe EXCEPT !.stage = "reportError",
                 !.viaReportError = reportErrorOutcome(probe.config, probe.cache,
                                       probe.error, probe.context, probe.at)]
  /\ UNCHANGED <<faultVars, callerVars, hookVars>>

\* on the same manager in the same state, the caller invokes
\* report({message: error.message, stack: error.stack, context, severity: 'error'})
ReportCalled ==
  /\ probe.stage = "reportError"
  /\ probe' = [probe EXCEPT !.stage = "report",
                 !.viaReport = reportOutcome(probe.config, probe.cache,
                    [message |-> probe.error.message,
                     hasStack |-> probe.error.hasStack,
                     stack |-> probe.error.stack,
                     context |-> probe.context, severity |-> "error"],
                    probe.at)]
  /\ UNCHANGED <<faultVars, callerVars, hookVars>>

NextReportError == ReportErrorCalled \/ ReportCalled

SpecReportError == InitReportError /\ [][NextReportError]_vars

---------------------------------------------------------------------------
(* C21: reportError(error, context) does what report({message:             *)
(* error.message, stack: error.stack, context, severity: 'error'}) does on *)
(* the same manager in the same state: the same dedup decision, cache,     *)
(* tracker call and pending invocation; a ticket it creates is sent with   *)
(* priority 2 whatever default priority is configured.                     *)

C21_ReportErrorIsReport ==
  /\ probe.stage = "report" => probe.viaReportError = probe.viaReport
  /\ (probe.stage # "input" /\ ~probe.viaReportError.hit) =>
       /\ probe.viaReportError.call.issueCalls = 1
       /\ probe.viaReportError.priority = 2

\* an error reported through reportError on a manager whose default priority
\* is 4, its old record expired: a ticket of priority 2, as through report()
C21_Witness ==
  /\ probe.stage = "report"
  /\ probe.config.defaultPriority = 4 /\ probe.config.deduplicate
  /\ probe.cache # EmptyMap /\ probe.at > probe.config.dedupeWindow
  /\ probe.viaReportError.cache = EmptyMap
  /\ probe.viaReportError.call.pc = "awaitCreateIssue"
  /\ probe.viaReportError.priority = 2
  /\ probe.viaReport = probe.viaReportError

---------------------------------------------------------------------------
(* The constructor's options: each left out or provided *)

\* dedupeWindow as the caller passes it: left out, or a number of ms
WindowOptions ==
  {[given |-> FALSE, value |-> 0]} \cup
  {[given |-> TRUE, value |-> w] : w \in {0, Window, Window + 1}}

\* the FaultConfig object the constructor reads: a dedupeWindow left out reads
\* as undefined, falsy as 0 is
faultConfigOf(dedup, window, priority) ==
  [deduplicate |-> dedup,
   dedupeWindow |-> IF window.given THEN window.value ELSE 0,
   defaultPriority |-> priority]

\* times since the record was last seen at which a report arrives
Elapsed == {0, Window, Window + 1, DefaultDedupeWindow, DefaultDedupeWindow + 1}

\* the fingerprint the constructed manager is asked about
ProbeHash == generateFaultHash(CHOOSE r \in Reports : TRUE)

InitOptions ==
  /\ FaultInit /\ config = DefaultDedupConfig
  /\ CallerInit /\ HookInit
  /\ \E dedup \in {"true", "false", "undefined"}, window \in WindowOptions,
        p \in ConfiguredPriorities :
       probe = [stage |-> "input", deduplicate |-> dedup, dedupeWindow |-> window,
                defaultPriority |-> p, config |-> DefaultDedupConfig,
                elapsed |-> 0, hit |-> FALSE, priority |-> 0]

\* new FaultManager({..., deduplicate, dedupeWindow, defaultPriority})
OptionsConstructed ==
  /\ probe.stage = "input"
  /\ probe' = [probe EXCEPT !.stage = "constructed",
                 !.config = FaultManagerConfig(
                    faultConfigOf(probe.deduplicate, probe.dedupeWindow,
                                  probe.defaultPriority))]
  /\ UNCHANGED <<faultVars, callerVars, hookVars>>

\* a report without severity arrives some time after its fingerprint was last
\* seen: the dedup check, and the priority of a ticket
OptionsUsed ==
  /\ probe.stage = "constructed"
  /\ \E e \in Elapsed :
       probe' = [probe EXCEPT !.stage = "used", !.elapsed = e,
                   !.hit = dedupCheck(probe.config,
                              MapSet(EmptyMap, ProbeHash, newRecord(ProbeHash, 1, 0)),
                              ProbeHash, e).hit,
                   !.priority = getPriority(probe.config, "undefined")]
  /\ UNCHANGED <<faultVars, callerVars, hookVars>>

NextOptions == OptionsConstructed \/ OptionsUsed

SpecOptions == InitOptions /\ [][NextOptions]_vars

\* the value the claim expects each option to take
ExpectedDeduplicate == probe.deduplicate # "false"
ExpectedWindow ==
  IF probe.dedupeWindow.given THEN probe.dedupeWindow.value ELSE DefaultDedupeWindow
ExpectedPriority ==
  IF probe.defaultPriority = 0 THEN DefaultPriority ELSE probe.defaultPriority

---------------------------------------------------------------------------
(* C22: a manager constructed without deduplicate, dedupeWindow and       *)
(* defaultPriority deduplicates with a 3,600,000 ms window and default    *)
(* priority 2; an option the caller provides (deduplicate=false and any   *)
(* numeric window included) is the value used.                            *)

C22_OptionsAsProvided ==
  /\ probe.stage # "input" =>
       /\ probe.config.deduplicate = ExpectedDeduplicate
       /\ probe.config.dedupeWindow = ExpectedWindow
       /\ probe.config.defaultPriority = ExpectedPriority
  /\ probe.stage = "used" =>
       /\ probe.hit = (ExpectedDeduplicate /\ probe.elapsed <= ExpectedWindow)
       /\ probe.priority = ExpectedPriority

---------------------------------------------------------------------------
(* Removal of callbacks: off and removeAllListeners *)

\* callbacks registered at a time in the removal scenarios
MaxRegistered == 3

\* Array.indexOf, counted from 1: 0 when the callback is not in the list
indexOf(list, cb) ==
  IF \E i \in DOMAIN list : list[i] = cb
  THEN CHOOSE i \in DOMAIN list :
         list[i] = cb /\ \A j \in 1..(i - 1) : list[j] # cb
  ELSE 0

\* Array.splice(index, 1)
splice(list, index) ==
  SubSeq(list, 1, index - 1) \o SubSeq(list, index + 1, Len(list))

\* off removing every registration of the callback under the key
off_every(h, key, cb) ==
  IF indexOf(handlersOf(h, key), cb) > 0
  THEN MapSet(h, key, SelectSeq(handlersOf(h, key), LAMBDA x : x # cb))
  ELSE h

\* off(eventType, handler)
off(h, key, cb) ==
  LET list == handlersOf(h, key)
      index == indexOf(list, cb)
  IN IF index > 0 THEN MapSet(h, key, splice(list, index)) ELSE h

\* removeAllListeners deleting the key's 'key.action' entries as well
removeAllListeners_withActions(h, given, key) ==
  IF given /\ key # <<>>
  THEN [k \in {x \in DOMAIN h :
                 x # key /\ \A a \in EventActions : x # actionKey(key, a)}
          |-> h[k]]
  ELSE NoHandlers

\* removeAllListeners(eventType?): an eventType left out, or empty, is falsy
removeAllListeners(h, given, key) ==
  IF given /\ key # <<>> THEN MapDelete(h, key) ELSE NoHandlers

\* how many times cb is registered under key
Occurrences(h, key, cb) ==
  Cardinality({i \in DOMAIN handlersOf(h, key) : handlersOf(h, key)[i] = cb})

\* the keys and requests of the removal scenarios: an Issue create event and
\* an Issue update event, callbacks under keys that match both or one of them
RemovalKeys == {<<"Issue">>, actionKey(<<"Issue">>, <<"create">>), Wildcard}
RemovalBodies == {jsonText(<<"Issue">>, a, <<>>) : a \in EventActions}

\* the number of callbacks registered under the keys of the scenarios
Registered(h) ==
  Cardinality({<<k, i>> \in RemovalKeys \X (1..MaxRegistered) :
                 i <= Len(handlersOf(h, k))})

\* the last call the caller made on the registry: on, off or
\* removeAllListeners, and for a removal how many registrations it found (of
\* cb under key for off, under key for removeAllListeners(key))
registryCall(kind, key, cb, found) ==
  [stage |-> kind, key |-> key, cb |-> cb, found |-> found]

InitRemoval ==
  /\ FaultInit /\ config = DefaultDedupConfig
  /\ CallerInit
  /\ probe = registryCall("none", <<>>, "", 0)
  /\ signingSecret = ""
  /\ handlers = NoHandlers
  /\ delivery = NoDelivery

\* the caller calls on(key, cb) before the request arrives
Register(key, cb) ==
  /\ delivery.stage = "idle"
  /\ Registered(handlers) < MaxRegistered
  /\ handlers' = registered(handlers, key, cb)
  /\ probe' = registryCall("on", <<>>, "", 0)
  /\ UNCHANGED <<faultVars, callerVars, signingSecret, delivery>>

\* the caller calls off(key, cb) before the request arrives
Off(key, cb) ==
  /\ delivery.stage = "idle"
  /\ handlers' = off(handlers, key, cb)
  /\ probe' = registryCall("off", key, cb, Occurrences(handlers, key, cb))
  /\ UNCHANGED <<faultVars, callerVars, signingSecret, delivery>>

\* the caller calls removeAllListeners(key) before the request arrives
RemoveAllListeners(key) ==
  /\ delivery.stage = "idle"
  /\ handlers' = removeAllListeners(handlers, TRUE, key)
  /\ probe' = registryCall("removeKey", key, "", Len(handlersOf(handlers, key)))
  /\ UNCHANGED <<faultVars, callerVars, signingSecret, delivery>>

\* the caller calls removeAllListeners() before the request arrives
RemoveEveryListener ==
  /\ delivery.stage = "idle"
  /\ handlers' = removeAllListeners(handlers, FALSE, <<>>)
  /\ probe' = registryCall("removeAll", <<>>, "", Registered(handlers))
  /\ UNCHANGED <<faultVars, callerVars, signingSecret, delivery>>

\* the request arrives unsigned, and every callback it invokes returns
DeliverAfter(raw) ==
  /\ delivery.stage = "idle"
  /\ LET all == allHandlers(handlers, parseJSON(raw))
         p == processStarted(signingSecret, handlers, parseJSON(raw), FALSE,
                             Junk(0), [i \in DOMAIN all |-> "returns"])
     IN delivery' = [stage |-> p.stage, raw |-> raw, signed |-> FALSE,
                     signature |-> Junk(0), event |-> p.event,
                     started |-> p.started, result |-> p.result, status |-> 0,
                     warned |-> p.warned, errors |-> p.errors]
  /\ UNCHANGED <<faultVars, callerVars, probe, signingSecret, handlers>>

NextRemoval ==
  \/ \E key \in RemovalKeys, cb \in Callbacks : Register(key, cb)
  \/ \E key \in RemovalKeys, cb \in Callbacks : Off(key, cb)
  \/ \E key \in RemovalKeys : RemoveAllListeners(key)
  \/ RemoveEveryListener
  \/ \E raw \in RemovalBodies : DeliverAfter(raw)
  \/ ProcessResolves
  \/ Respond

SpecRemoval == InitRemoval /\ [][NextRemoval]_vars

\* the step is a removal of this kind
Removes(kind) ==
  /\ probe'.stage = kind
  /\ probe' # probe \/ handlers' # handlers

\* an event is dispatched and the caller's last call on the registry was a
\* removal of this kind
DispatchesAfter(kind) == Dispatches /\ probe.stage = kind

\* how many of the invoked handlers come from key k, and how many are cb
InvokedUnder(started, k) ==
  Cardinality({j \in DOMAIN started : started[j].key = k})
InvokedOf(started, k, cb) ==
  Cardinality({j \in DOMAIN started : started[j].key = k /\ started[j].cb = cb})

---------------------------------------------------------------------------
(* C23: off(key, h) removes one registration of h under that key and       *)
(* nothing else: other keys and other callbacks keep their registrations   *)
(* in their order, an off() of a callback not registered under the key     *)
(* leaves the registry as it is, and an event of that key dispatched       *)
(* afterwards invokes h through the key once fewer than it was registered  *)
(* (not at all when it was registered once).                               *)

C23_OneRegistrationRemoved ==
  Removes("off") =>
    LET key == probe'.key
        cb == probe'.cb
        n == Occurrences(handlers, key, cb)
    IN /\ \A k \in Keys \ {key} : handlersOf(handlers', k) = handlersOf(handlers, k)
       /\ SelectSeq(handlersOf(handlers', key), LAMBDA x : x # cb)
            = SelectSeq(handlersOf(handlers, key), LAMBDA x : x # cb)
       /\ Occurrences(handlers', key, cb) = IF n = 0 THEN 0 ELSE n - 1
       /\ n = 0 => handlers' = handlers

C23_InvokedOnceFewer ==
  (DispatchesAfter("off") /\ probe.key \in MatchingKeys(delivery'.event)) =>
    InvokedOf(delivery'.started, probe.key, probe.cb)
      = IF probe.found = 0 THEN 0 ELSE probe.found - 1

C23_OffRemovesOne == [][C23_OneRegistrationRemoved /\ C23_InvokedOnceFewer]_vars

\* f was registered twice under Issue beside g; after off(Issue, f) an Issue
\* event invoked f once, and g
C23_Witness ==
  /\ probe.stage = "off" /\ probe.found = 2
  /\ probe.key = <<"Issue">> /\ probe.cb = "f"
  /\ delivery.stage = "dispatched"
  /\ InvokedOf(delivery.started, <<"Issue">>, "f") = 1
  /\ InvokedOf(delivery.started, <<"Issue">>, "g") = 1

---------------------------------------------------------------------------
(* C24: removeAllListeners(key) empties that key and leaves every other    *)
(* key as it was, so an event dispatched afterwards invokes nothing        *)
(* through the key and still invokes every callback under its other        *)
(* matching keys ('key.action', '*'); removeAllListeners() empties the     *)
(* registry, and an event dispatched afterwards invokes nothing.           *)

C24_KeyEmptied ==
  Removes("removeKey") =>
    /\ handlersOf(handlers', probe'.key) = <<>>
    /\ \A k \in Keys \ {probe'.key} : handlersOf(handlers', k) = handlersOf(handlers, k)

C24_RegistryEmptied ==
  Removes("removeAll") => \A k \in Keys : handlersOf(handlers', k) = <<>>

C24_OthersStillInvoked ==
  DispatchesAfter("removeKey") =>
    /\ InvokedUnder(delivery'.started, probe.key) = 0
    /\ \A k \in MatchingKeys(delivery'.event) \ {probe.key} :
         /\ InvokedUnder(delivery'.started, k) = Len(handlersOf(handlers, k))
         /\ \A i \in 1..Len(handlersOf(handlers, k)) :
              \E j \in DOMAIN delivery'.started :
                /\ delivery'.started[j].key = k /\ delivery'.started[j].pos = i
                /\ delivery'.started[j].cb = handlersOf(handlers, k)[i]

C24_NothingInvoked ==
  DispatchesAfter("removeAll") => delivery'.started = <<>>

C24_RemoveAllListeners ==
  [][/\ C24_KeyEmptied /\ C24_RegistryEmptied
     /\ C24_OthersStillInvoked /\ C24_NothingInvoked]_vars

\* callbacks under Issue, Issue.create and '*'; after removeAllListeners of
\* Issue an Issue create event invoked the two that remained
C24_Witness ==
  /\ probe.stage = "removeKey" /\ probe.key = <<"Issue">> /\ probe.found > 0
  /\ delivery.stage = "dispatched"
  /\ delivery.event = [type |-> <<"Issue">>, action |-> <<"create">>]
  /\ Len(delivery.started) = 2
  /\ InvokedUnder(delivery.started, actionKey(<<"Issue">>, <<"create">>)) = 1
  /\ InvokedUnder(delivery.started, Wildcard) = 1

---------------------------------------------------------------------------
(* The record of one fingerprint, from its insertion on: reports of one    *)
(* fault to a manager that deduplicates *)

\* the fault that is reported again and again, and its fingerprint
RepeatedFault == CHOOSE r \in Reports : r.hasStack
RepeatedHash == generateFaultHash(RepeatedFault)

\* what has happened to the record: when it was last inserted, how many
\* duplicate-path invocations hit it since, how many records were inserted
\* and how many were removed (expired or cleared) so far, and for every
\* invocation that hit a record, how many had been inserted and removed then
NoLife ==
  [stage |-> "record", createdAt |-> -1, hits |-> 0, inserted |-> 0, removed |-> 0,
   hitAt |-> [c \in Calls |-> [inserted |-> -1, removed |-> -1]]]

InitRecord ==
  /\ FaultInit /\ config = DefaultDedupConfig
  /\ CallerInit /\ HookInit
  /\ probe = NoLife

\* the caller reports the fault
ReportAgain(c) ==
  /\ ReportStep(c, RepeatedFault)
  /\ LET chk == dedupCheck(config, faultCache, RepeatedHash, now)
     IN probe' = [probe EXCEPT
                    !.hits = IF chk.hit THEN @ + 1 ELSE @,
                    !.removed = IF chk.found = "expired" THEN @ + 1 ELSE @,
                    !.hitAt[c] = IF chk.hit
                                 THEN [inserted |-> probe.inserted,
                                       removed |-> probe.removed]
                                 ELSE @]
  /\ UNCHANGED <<callerVars, hookVars>>

\* the created issue of invocation c arrives, is missing, or its fetch rejects
IssueArrives(c, outcome) ==
  /\ IssueStep(c, outcome)
  /\ probe' = IF outcome = "issue"
              THEN [probe EXCEPT !.createdAt = now, !.hits = 0, !.inserted = @ + 1]
              ELSE probe
  /\ UNCHANGED <<callerVars, hookVars>>

\* the caller invokes clearCache()
CacheCleared ==
  /\ ClearStep
  /\ probe' = IF RepeatedHash \in DOMAIN faultCache
              THEN [probe EXCEPT !.removed = @ + 1]
              ELSE probe
  /\ UNCHANGED <<callerVars, hookVars>>

NextRecord ==
  \/ \E c \in Calls : ReportAgain(c)
  \/ \E c \in Calls, ok \in BOOLEAN : CreateCommentSettles(c, ok)
  \/ \E c \in Calls, ok \in BOOLEAN : CreateIssueSettles(c, ok)
  \/ \E c \in Calls, outcome \in {"issue", "none", "reject"} : IssueArrives(c, outcome)
  \/ CacheCleared
  \/ Tick

SpecRecord == InitRecord /\ [][NextRecord]_vars

---------------------------------------------------------------------------
(* C25: a report that starts while its fingerprint's record is cached and  *)
(* no more than the window after the most recent sighting (the insertion   *)
(* or the last duplicate) is a duplicate of the record's ticket and resets *)
(* lastSeen, however long ago the ticket was created: reports at intervals *)
(* of at most the window stay duplicates of the same ticket.               *)

C25_SightingRestartsWindow ==
  \A c \in Calls, h \in Hashes :
    ( /\ Starts(c, h)
      /\ h \in DOMAIN faultCache
      /\ Seen(h, config.dedupeWindow) = "within" )
    => /\ TookDuplicatePath(calls'[c])
       /\ calls'[c].existingId = faultCache[h].issueId
       /\ h \in DOMAIN faultCache'
       /\ faultCache'[h].issueId = faultCache[h].issueId
       /\ faultCache'[h].lastSeen = now

C25_WindowFromLastSighting == [][C25_SightingRestartsWindow]_vars

\* a ticket created at time 0 and reported again at times 1 and 2, one
\* window apart: the third report, two windows after the creation, is a
\* duplicate of the first one's ticket
C25_Witness ==
  /\ probe.inserted = 1 /\ probe.removed = 0 /\ probe.hits = 2
  /\ now - probe.createdAt > config.dedupeWindow
  /\ ReturnedFresh(1) /\ ReturnedDuplicate(2) /\ ReturnedDuplicate(3)
  /\ calls[3].result.issueId = calls[1].result.issueId
  /\ calls[2].result.issueId = calls[1].result.issueId

---------------------------------------------------------------------------
(* C26: on the duplicate path the record is updated in the segment that    *)
(* issues createComment (count one more, lastSeen now, the rest as it      *)
(* was), the comment carries the count after the increment, and nothing is *)
(* undone when the comment call settles, also when it fails.               *)

C26_UpdatedBeforeComment ==
  \A c \in Calls, h \in Hashes :
    (Starts(c, h) /\ calls'[c].commentCalls = 1)
    => /\ h \in DOMAIN faultCache /\ h \in DOMAIN faultCache'
       /\ faultCache'[h].count = faultCache[h].count + 1
       /\ faultCache'[h].lastSeen = now
       /\ faultCache'[h].issueId = faultCache[h].issueId
       /\ calls'[c].commentCount = faultCache'[h].count
       /\ calls'[c].pc = "awaitComment"

C26_KeptWhenCommentSettles ==
  \A c \in Calls :
    (calls[c].pc = "awaitComment" /\ calls'[c].pc # "awaitComment")
    => /\ faultCache' = faultCache
       /\ calls'[c].commentCount = calls[c].commentCount
       /\ calls'[c].commentCalls = 1

C26_CountBeforeComment ==
  [][C26_UpdatedBeforeComment /\ C26_KeptWhenCommentSettles]_vars

\* the comment of a duplicate failed: the report has returned, the warning
\* is logged, and the record still holds count 2 and the time of the sighting
C26_Witness ==
  /\ ReturnedDuplicate(2) /\ calls[2].logged = <<"info", "warn">>
  /\ calls[2].commentCount = 2
  /\ calls[3].pc = "idle"
  /\ RepeatedHash \in DOMAIN faultCache
  /\ faultCache[RepeatedHash].count = 2
  /\ faultCache[RepeatedHash].lastSeen = 1 /\ probe.createdAt = 0

---------------------------------------------------------------------------
(* C27: whatever the interleaving of invocations, no increment is lost:    *)
(* the count of a cached record is 1 plus the number of duplicate-path     *)
(* invocations that hit it since it was inserted, and at least 1.          *)

C27_NoLostIncrement ==
  RepeatedHash \in DOMAIN faultCache =>
    /\ faultCache[RepeatedHash].count = 1 + probe.hits
    /\ faultCache[RepeatedHash].count >= 1

\* two duplicates of the record in flight at once, both counted
C27_Witness ==
  /\ calls[2].pc = "awaitComment" /\ calls[3].pc = "awaitComment"
  /\ RepeatedHash \in DOMAIN faultCache
  /\ faultCache[RepeatedHash].count = 3 /\ probe.hits = 2
  /\ calls[2].commentCount = 2 /\ calls[3].commentCount = 3

---------------------------------------------------------------------------
(* C28: when createIssue resolves and no created issue comes with it,      *)
(* report() rejects as it does for a creation that failed: the error is    *)
(* logged and thrown on, nothing is returned, no further tracker call is   *)
(* made, and the cache and the tickets are left as they were.              *)

C28_MissingIssueRejects ==
  \A c \in Calls :
    ( /\ calls[c].pc = "awaitIssue" /\ calls'[c].pc # "awaitIssue"
      /\ calls'[c].result.error = "NoIssueError" )
    => /\ calls'[c].pc = "rejected"
       /\ calls'[c].result.kind = "error" /\ ~calls'[c].result.isDuplicate
       /\ calls'[c].logged = Append(calls[c].logged, "error")
       /\ calls'[c].issueCalls = 1 /\ calls'[c].commentCalls = 0
       /\ faultCache' = faultCache
       /\ issues' = issues

C28_SameAsFailedCreation ==
  \A c \in Calls :
    ( /\ calls[c].pc \in {"awaitCreateIssue", "awaitIssue"}
      /\ calls'[c].result.error = "GatewayError" )
    => /\ calls'[c].pc = "rejected"
       /\ calls'[c].result.kind = "error" /\ ~calls'[c].result.isDuplicate
       /\ calls'[c].logged = Append(calls[c].logged, "error")
       /\ calls'[c].issueCalls = 1 /\ calls'[c].commentCalls = 0
       /\ faultCache' = faultCache
       /\ issues' = issues

C28_NoIssueIsFailure == [][C28_MissingIssueRejects /\ C28_SameAsFailedCreation]_vars

\* the first report got no issue and the second a rejected createIssue: both
\* rejected with one error logged, and nothing is cached
C28_Witness ==
  /\ Rejected(1) /\ calls[1].result.error = "NoIssueError"
  /\ Rejected(2) /\ calls[2].result.error = "GatewayError"
  /\ calls[1].logged = <<"error">> /\ calls[2].logged = <<"error">>
  /\ faultCache = EmptyMap /\ issues = <<>>
  /\ probe.stage = "record" /\ probe.inserted = 0

---------------------------------------------------------------------------
(* C30: no step of a fresh-path invocation that does not end in a          *)
(* confirmed creation adds or modifies a cache record; its first step may  *)
(* remove the expired record of its own fingerprint, and that is the only  *)
(* change to the cache a failed fresh-path report can have made.           *)

C30_FreshStepLeavesCache ==
  \A c \in Calls :
    ( /\ calls'[c] # calls[c]
      /\ TookFreshPath(calls'[c])
      /\ calls'[c].pc # "resolved" )
    => LET h == calls'[c].hash
       IN \/ faultCache' = faultCache
          \/ /\ calls[c].pc = "idle"
             /\ h \in DOMAIN faultCache
             /\ now - faultCache[h].lastSeen > config.dedupeWindow
             /\ faultCache' = MapDelete(faultCache, h)

C30_FailedFreshPathFrame == [][C30_FreshStepLeavesCache]_vars

\* the second report of a fingerprint found its record expired and then got
\* no issue: the expired record is gone and nothing was written
C30_Witness ==
  /\ ReturnedFresh(1)
  /\ Rejected(2) /\ calls[2].result.error = "NoIssueError"
  /\ calls[2].hash = calls[1].hash
  /\ calls[2].hash \notin DOMAIN faultCache
  /\ ~cleared /\ Len(issues) = 1

---------------------------------------------------------------------------
(* A race under way: two reports of the fault started together on a new    *)
(* manager and both missed; the first one's ticket (1) was confirmed and   *)
(* its record written, and it has returned; the second, invocation 1 here, *)
(* still waits for createIssue *)

InitOverwrite ==
  /\ config = DefaultDedupConfig
  /\ faultCache = MapSet(EmptyMap, RepeatedHash, newRecord(RepeatedHash, 1, 0))
  /\ calls = [c \in Calls |->
                IF c = 1
                THEN reportStart(Idle, RepeatedHash,
                                 dedupCheck(config, EmptyMap, RepeatedHash, 0), 0)
                ELSE Idle]
  /\ issues = <<0>>
  /\ now = 0
  /\ lastEvent = [h \in Hashes |-> IF h = RepeatedHash THEN Ev("created", 0)
                                   ELSE Ev("none", 0)]
  /\ lastSighting = [h \in Hashes |-> IF h = RepeatedHash THEN 0 ELSE -1]
  /\ serial = FALSE
  /\ cleared = FALSE
  /\ CallerInit /\ HookInit
  /\ probe = [NoLife EXCEPT !.createdAt = 0, !.inserted = 1]

SpecOverwrite == InitOverwrite /\ [][NextRecord]_vars

\* invocations c and d both returned as duplicates of the fault
BothDuplicates(c, d) ==
  /\ ReturnedDuplicate(c) /\ ReturnedDuplicate(d)
  /\ calls[c].hash = RepeatedHash /\ calls[d].hash = RepeatedHash

---------------------------------------------------------------------------
(* C29: two reports of a fingerprint that return isDuplicate=true return   *)
(* the same issueId when no record of the fingerprint expired or was       *)
(* cleared between their dedup checks.                                     *)

C29_SameIdWhileLive ==
  \A c \in Calls, d \in Calls :
    (BothDuplicates(c, d) /\ probe.hitAt[c].removed = probe.hitAt[d].removed)
    => calls[c].result.issueId = calls[d].result.issueId

(* C29, amended: ... and no record of the fingerprint was inserted between *)
(* their dedup checks either, by a report that had started before the      *)
(* record they hit was written.                                            *)

C29_SameIdForSameRecord ==
  \A c \in Calls, d \in Calls :
    ( /\ BothDuplicates(c, d)
      /\ probe.hitAt[c].removed = probe.hitAt[d].removed
      /\ probe.hitAt[c].inserted = probe.hitAt[d].inserted )
    => calls[c].result.issueId = calls[d].result.issueId

\* two duplicates of ticket 1, one of them returning after the late creation
\* of ticket 2 replaced the record
C29_Witness ==
  /\ BothDuplicates(2, 3)
  /\ probe.hitAt[2] = probe.hitAt[3] /\ probe.hitAt[2].inserted = 1
  /\ probe.inserted = 2 /\ probe.removed = 0
  /\ faultCache[RepeatedHash].issueId = 2
  /\ calls[2].result.issueId = 1 /\ calls[3].result.issueId = 1

---------------------------------------------------------------------------
(* C31: no step of a report() of fingerprint F adds, removes or modifies   *)
(* the record of another fingerprint G, and a record of G leaves the cache *)
(* only in a step that looks G up or in clearCache(): an expired record of *)
(* G stays until then.                                                     *)

C31_OtherRecordsUntouched ==
  \A c \in Calls :
    calls'[c] # calls[c] =>
      \A g \in Hashes \ {calls'[c].hash} :
        /\ g \in DOMAIN faultCache' <=> g \in DOMAIN faultCache
        /\ g \in DOMAIN faultCache => faultCache'[g] = faultCache[g]

C31_RemovedOnlyByOwnLookup ==
  \A g \in Hashes :
    (g \in DOMAIN faultCache /\ g \notin DOMAIN faultCache')
    => \/ \E c \in Calls : Starts(c, g)
       \/ lastEvent'[g] = Ev("clear", 0)

C31_ReportTouchesOwnRecordOnly ==
  [][C31_OtherRecordsUntouched /\ C31_RemovedOnlyByOwnLookup]_vars

\* the record of the first report's fingerprint has expired; a report of
\* another fingerprint came and went, and the expired record is still cached
C31_Witness ==
  /\ config.deduplicate /\ ~cleared
  /\ ReturnedFresh(1) /\ Settled(2)
  /\ calls[2].hash # calls[1].hash
  /\ calls[1].hash \in DOMAIN faultCache
  /\ faultCache[calls[1].hash].issueId = calls[1].result.issueId
  /\ now - faultCache[calls[1].hash].lastSeen > config.dedupeWindow
  /\ lastReported[calls[2].hash] > faultCache[calls[1].hash].lastSeen
         + config.dedupeWindow

---------------------------------------------------------------------------
(* C32: clearCache() leaves the invocations in flight as they are, and an  *)
(* invocation whose creation is confirmed after a clearCache() writes its  *)
(* record all the same; a later report of the fingerprint can then be a    *)
(* duplicate of that ticket.                                               *)

C32_ClearLeavesInvocations ==
  (faultCache' = EmptyMap /\ lastEvent'[RepeatedHash] = Ev("clear", 0)
     /\ lastEvent[RepeatedHash] # Ev("clear", 0))
  => calls' = calls /\ issues' = issues

C32_InsertsAfterClear ==
  \A c \in Calls :
    (cleared /\ calls[c].pc = "awaitIssue" /\ calls'[c].pc = "resolved")
    => /\ calls[c].hash \in DOMAIN faultCache'
       /\ faultCache'[calls[c].hash] =
            [hash |-> calls[c].hash, issueId |-> calls'[c].result.issueId,
             count |-> 1, lastSeen |-> now]

C32_ClearSparesInFlight == [][C32_ClearLeavesInvocations /\ C32_InsertsAfterClear]_vars

\* invocation 1 was in flight when clearCache() removed the record of
\* ticket 1; its own ticket 2 was confirmed afterwards, and the report that
\* followed returned as a duplicate of ticket 2
C32_Witness ==
  /\ cleared /\ probe.removed = 1 /\ probe.inserted = 2
  /\ ReturnedFresh(1) /\ calls[1].result.issueId = 2
  /\ ReturnedDuplicate(2) /\ calls[2].result.issueId = 2
  /\ probe.hitAt[2] = [inserted |-> 2, removed |-> 1]

---------------------------------------------------------------------------
(* C33: with deduplication disabled a report never reads the cache (it     *)
(* starts down the fresh path and leaves the cache as it is, whatever is   *)
(* cached), every confirmed creation writes the record of its fingerprint  *)
(* over any earlier one, and a record leaves the cache only in             *)
(* clearCache().                                                           *)

C33_CacheNotRead ==
  \A c \in Calls, h \in Hashes :
    (~config.deduplicate /\ Starts(c, h))
    => /\ TookFreshPath(calls'[c]) /\ calls'[c].pc = "awaitCreateIssue"
       /\ faultCache' = faultCache

C33_CreationStillWrites ==
  \A c \in Calls :
    (~config.deduplicate /\ calls[c].pc = "awaitIssue" /\ calls'[c].pc = "resolved")
    => faultCache' = MapSet(faultCache, calls[c].hash,
                            [hash |-> calls[c].hash,
                             issueId |-> calls'[c].result.issueId,
                             count |-> 1, lastSeen |-> now])

C33_RemovedOnlyByClear ==
  \A g \in Hashes :
    (~config.deduplicate /\ g \in DOMAIN faultCache /\ g \notin DOMAIN faultCache')
    => lastEvent'[g] = Ev("clear", 0)

C33_DisabledStillWrites ==
  [][C33_CacheNotRead /\ C33_CreationStillWrites /\ C33_RemovedOnlyByClear]_vars

\* deduplication disabled: the second report of a fingerprint started after
\* the record of the first had expired, left it in place, and its own ticket
\* then replaced it
C33_Witness ==
  /\ ~config.deduplicate /\ ~cleared
  /\ ReturnedFresh(1) /\ ReturnedFresh(2)
  /\ calls[2].hash = calls[1].hash
  /\ calls[1].result.issueId = 1 /\ calls[2].result.issueId = 2
  /\ faultCache[calls[1].hash].issueId = 2
  /\ faultCache[calls[1].hash].count = 1
  /\ lastReported[calls[1].hash] = MaxTime /\ now = MaxTime

---------------------------------------------------------------------------
(* The result envelope of report(): issueId, identifier, url, isDuplicate *)

\* the issues the tracker hands back: an id, a human key and the url of the
\* issue in its workspace
IssueIds == {<<"id", n>> : n \in 1..3}
IssueKeys == {<<team, "-", n>> : team \in {"ENG", "OPS"}, n \in 1..2}
Workspaces == {"acme", "initech", "issue"}
trackerUrl(workspace, key) == <<"https://linear.app/", workspace, "/issue/">> \o key
CreatedIssues ==
  {[id |-> i, identifier |-> k, url |-> trackerUrl(w, k)] :
     i \in IssueIds, k \in IssueKeys, w \in Workspaces}

\* the result of the fresh path
createdResult(createdIssue) ==
  [issueId |-> createdIssue.id, identifier |-> createdIssue.identifier,
   url |-> createdIssue.url, isDuplicate |-> FALSE]

\* duplicateResult handing back what the tracker returned at creation
duplicateResult_ofTracker(existing, createdIssue) ==
  [issueId |-> existing.issueId, identifier |-> createdIssue.identifier,
   url |-> createdIssue.url, isDuplicate |-> TRUE]

\* the result of the duplicate path, built from the cached record; the
\* created issue is out of its reach
duplicateResult(existing, createdIssue) ==
  [issueId |-> existing.issueId, identifier |-> <<"duplicate">>,
   url |-> <<"https://linear.app/issue/">> \o existing.issueId,
   isDuplicate |-> TRUE]

NoEnvelope == [issueId |-> <<>>, identifier |-> <<>>, url |-> <<>>, isDuplicate |-> FALSE]

InitResult ==
  /\ FaultInit /\ config = DefaultDedupConfig
  /\ CallerInit /\ HookInit
  /\ \E issue \in CreatedIssues :
       probe = [stage |-> "input", createdIssue |-> issue, record |-> NoRecord,
                first |-> NoEnvelope, second |-> NoEnvelope, at |-> 0]

\* a report creates the ticket: the record is cached and the result returned
TicketCreated ==
  /\ probe.stage = "input"
  /\ probe' = [probe EXCEPT !.stage = "created",
                 !.record = newRecord(ProbeHash, probe.createdIssue.id, 0),
                 !.first = createdResult(probe.createdIssue)]
  /\ UNCHANGED <<faultVars, callerVars, hookVars>>

\* the fault is reported again within the window: the duplicate's result
DuplicateReturned ==
  /\ probe.stage = "created"
  /\ \E t \in 0..probe.record.lastSeen + config.dedupeWindow :
       probe' = [probe EXCEPT !.stage = "duplicate", !.at = t,
                   !.record = touch(probe.record, t),
                   !.second = duplicateResult(touch(probe.record, t),
                                              probe.createdIssue)]
  /\ UNCHANGED <<faultVars, callerVars, hookVars>>

NextResult == TicketCreated \/ DuplicateReturned

SpecResult == InitResult /\ [][NextResult]_vars

---------------------------------------------------------------------------
(* C34: the result of a duplicate carries the issueId of the cached        *)
(* record, the identifier 'duplicate' and the url                          *)
(* https://linear.app/issue/<issueId>, not the identifier and url the      *)
(* tracker returned, and the fresh result carried, at creation.            *)

C34_DuplicateEnvelope ==
  probe.stage = "duplicate" =>
    /\ probe.second.isDuplicate /\ ~probe.first.isDuplicate
    /\ probe.second.issueId = probe.first.issueId
    /\ probe.second.issueId = probe.createdIssue.id
    /\ probe.second.identifier = <<"duplicate">>
    /\ probe.second.url = <<"https://linear.app/issue/">> \o probe.createdIssue.id
    /\ probe.second.identifier # probe.createdIssue.identifier
    /\ probe.second.url # probe.createdIssue.url
    /\ probe.first.identifier = probe.createdIssue.identifier
    /\ probe.first.url = probe.createdIssue.url

\* ticket ENG-1 of workspace acme, reported again one window later
C34_Witness ==
  /\ probe.stage = "duplicate" /\ probe.at = config.dedupeWindow
  /\ probe.first.identifier = <<"ENG", "-", 1>>
  /\ probe.first.url = <<"https://linear.app/", "acme", "/issue/", "ENG", "-", 1>>
  /\ probe.second.identifier = <<"duplicate">>
  /\ probe.second.url = <<"https://linear.app/issue/", "id", 1>>
  /\ probe.record.count = 2

---------------------------------------------------------------------------
(* Fingerprints of reports whose message or stack holds the ':' that       *)
(* generateFaultHash puts between them *)

\* messages and stacks as errors have them: 'TypeError: x', 'at f (a.js:1)'
SeparatorReports ==
  { [message |-> m, hasStack |-> st.has, stack |-> st.text] :
      m \in {<<"a">>, <<"a", ":", "b">>, <<"b">>},
      st \in { [has |-> FALSE, text |-> <<>>],
               [has |-> TRUE, text |-> <<"c">>],
               [has |-> TRUE, text |-> <<"b", ":", "c">>],
               [has |-> TRUE, text |-> <<"c", NL, "a", ":", "b">>] } }

InitSeparator ==
  /\ FaultInit /\ config = DefaultDedupConfig
  /\ CallerInit /\ HookInit
  /\ \E r1 \in SeparatorReports, r2 \in SeparatorReports :
       probe = [stage |-> "input", r1 |-> r1, r2 |-> r2, key1 |-> NoHash,
                key2 |-> NoHash, cache |-> EmptyMap, at |-> 0, second |-> NoRecord,
                hit |-> FALSE]

SpecSeparator == InitSeparator /\ [][NextFingerprint]_vars

---------------------------------------------------------------------------
(* C35: two reports whose (message, first stack line) pairs differ have    *)
(* different dedup keys, also when the message or the line holds a ':',    *)
(* and the second, reported within the window after the first one's        *)
(* ticket, is not merged into it.                                          *)

C35_DistinctPairsDistinctKeys ==
  (probe.stage # "input" /\ ~SameMessageAndFirstLine(probe.r1, probe.r2))
  => /\ probe.key1 # probe.key2
     /\ probe.stage = "second" =>
          /\ ~probe.hit
          /\ probe.key1 \in DOMAIN probe.cache
          /\ probe.cache[probe.key1].count = 1

---------------------------------------------------------------------------
(* C36: with a signing secret configured, a request with no signature, or  *)
(* with an empty one, is dispatched to every matching callback without any *)
(* verification; a request is rejected for its signature, or warned about, *)
(* only when it carries a non-empty signature.                             *)

C36_UnsignedIsDispatched ==
  ( /\ signingSecret # ""
    /\ delivery.stage = "idle" /\ delivery'.stage # "idle"
    /\ ~delivery'.signed \/ delivery'.signature.len = 0 )
  => /\ delivery'.stage = "dispatched"
     /\ delivery'.event = [type |-> parseJSON(delivery'.raw).type,
                           action |-> parseJSON(delivery'.raw).action]
     /\ Len(delivery'.started) = Len(allHandlers(handlers, delivery'.event))
     /\ \A k \in MatchingKeys(delivery'.event) :
          \A i \in 1..Len(handlersOf(handlers, k)) :
            Invocations(delivery'.started, k, i) = 1

C36_VerifiedOnlyWhenSigned ==
  ( /\ delivery.stage = "idle" /\ delivery'.stage # "idle"
    /\ \/ delivery'.result \in {"InvalidSignature", "RangeError"}
       \/ delivery'.warned > 0 )
  => delivery'.signed /\ delivery'.signature.len > 0

C36_NoSignatureNoVerification ==
  [][C36_UnsignedIsDispatched /\ C36_VerifiedOnlyWhenSigned]_vars

\* a handler with a secret answered 200 to a request with an empty signature
\* header after invoking two callbacks
C36_Witness ==
  /\ signingSecret = SenderSecret
  /\ delivery.signed /\ delivery.signature.len = 0
  /\ delivery.stage = "responded" /\ delivery.status = 200
  /\ Len(delivery.started) = 2

---------------------------------------------------------------------------
(* C37: the step of process() that dispatches starts every matching        *)
(* callback, those behind a callback that is still pending included; while *)
(* a started callback is pending process() has not settled, and it         *)
(* resolves in a step that finds none pending.                             *)

C37_AllStartedAtOnce ==
  Dispatches =>
    /\ Len(delivery'.started) = Len(allHandlers(handlers, delivery'.event))
    /\ \A i \in DOMAIN delivery'.started :
         /\ delivery'.started[i].state \in {"done", "failed", "pending"}
         /\ delivery'.started[i].cb = allHandlers(handlers, delivery'.event)[i].cb

C37_PendingHoldsProcess ==
  (delivery'.stage = "dispatched" /\ Count(delivery'.started, "pending") > 0)
  => delivery'.result = "pending"

C37_ResolvesWhenAllSettled ==
  (delivery.result # "resolved" /\ delivery'.result = "resolved")
  => /\ delivery.stage = "dispatched"
     /\ Count(delivery.started, "pending") = 0
     /\ delivery'.started = delivery.started

C37_ConcurrentStartJoinedEnd ==
  [][C37_AllStartedAtOnce /\ C37_PendingHoldsProcess /\ C37_ResolvesWhenAllSettled]_vars

\* the first callback is still pending, the second was started all the same
\* and has returned; process() has not resolved
C37_Witness ==
  /\ delivery.stage = "dispatched" /\ delivery.result = "pending"
  /\ Len(delivery.started) = 2
  /\ delivery.started[1].state = "pending"
  /\ delivery.started[2].state = "done"

---------------------------------------------------------------------------
(* expressErrorHandler(): the Express error middleware *)

\* request-like objects the middleware is called with
Requests ==
  { [url |-> "undefined", method |-> "undefined", body |-> "undefined"],
    [url |-> "/orders", method |-> "POST", body |-> "b"] }

\* the report the middleware passes to report()
reportOfRequest(error, req) ==
  [message |-> error.message, hasStack |-> error.hasStack, stack |-> error.stack,
   severity |-> "error", url |-> req.url,
   context |-> [method |-> req.method, body |-> req.body]]

\* a middleware invocation: where it stands, the responses it sent (how many,
\* the last status and body), what it logged, its calls of next, and how its
\* promise settled
NotInvoked ==
  [stage |-> "notCalled", responses |-> 0, status |-> 0, body |-> "none",
   logged |-> 0, nextCalls |-> 0, outcome |-> "none"]

\* the middleware is invoked and awaits report()
middlewareInvoked == [NotInvoked EXCEPT !.stage = "awaiting", !.outcome = "pending"]

\* middlewareResumed handing a failed report on to Express
middlewareResumed_next(m, rejected) ==
  IF rejected
  THEN [m EXCEPT !.stage = "done", !.nextCalls = @ + 1, !.outcome = "resolved"]
  ELSE [m EXCEPT !.stage = "done", !.responses = @ + 1, !.status = 500,
                 !.body = "Internal server error", !.outcome = "resolved"]

\* the await is over: a rejection is caught and logged, then the response
middlewareResumed(m, rejected) ==
  [m EXCEPT !.stage = "done",
            !.logged = IF rejected THEN @ + 1 ELSE @,
            !.responses = @ + 1, !.status = 500,
            !.body = "Internal server error",
            !.outcome = "resolved"]

InitExpress ==
  /\ FaultInit /\ CallerInit /\ HookInit
  /\ probe = [stage |-> "express", of |-> [c \in Calls |-> NotInvoked]]

\* Express calls the middleware with an error and the request
MiddlewareCalled(c, error, req) ==
  /\ c <= MaxTracked
  /\ ReportStep(c, reportOfRequest(error, req))
  /\ probe' = [probe EXCEPT !.of[c] = middlewareInvoked]
  /\ UNCHANGED <<callerVars, hookVars>>

\* the report of invocation c has settled and the middleware resumes
MiddlewareResumes(c) ==
  /\ probe.of[c].stage = "awaiting"
  /\ Settled(c)
  /\ probe' = [probe EXCEPT !.of[c] = middlewareResumed(@, Rejected(c))]
  /\ UNCHANGED <<faultVars, callerVars, hookVars>>

NextExpress ==
  \/ \E c \in Calls, error \in Errors, req \in Requests : MiddlewareCalled(c, error, req)
  \/ \E c \in Calls, ok \in BOOLEAN : CreateCommentSettles(c, ok)
  \/ \E c \in Calls, ok \in BOOLEAN : CreateIssueSettles(c, ok)
  \/ \E c \in Calls, outcome \in {"issue", "none", "reject"} : IssueSettles(c, outcome)
  \/ \E c \in Calls : MiddlewareResumes(c)
  \/ Tick

SpecExpress == InitExpress /\ [][NextExpress]_vars

---------------------------------------------------------------------------
(* C38: the Express error middleware sends nothing while its report is     *)
(* pending; once the report has settled it resumes and then has sent one   *)
(* response, status 500 with the generic body, after a resolved report as  *)
(* after a rejected one; a rejection is logged and not thrown on, and next *)
(* is never called.                                                        *)

C38_OneResponse500 ==
  \A c \in Calls :
    LET m == probe.of[c]
    IN /\ m.nextCalls = 0
       /\ m.outcome \in {"none", "pending", "resolved"}
       /\ m.stage = "notCalled" => m.responses = 0
       /\ m.stage = "awaiting" =>
            /\ m.responses = 0 /\ m.logged = 0 /\ calls[c].pc # "idle"
            /\ Settled(c) => ENABLED MiddlewareResumes(c)
       /\ m.stage = "done" =>
            /\ Settled(c)
            /\ m.responses = 1 /\ m.status = 500
            /\ m.body = "Internal server error"
            /\ m.outcome = "resolved"
            /\ m.logged = IF Rejected(c) THEN 1 ELSE 0

\* two errors through the middleware: one report created a ticket, the
\* other's createIssue rejected; each got one 500
C38_Witness ==
  /\ probe.of[1].stage = "done" /\ probe.of[2].stage = "done"
  /\ ReturnedFresh(1) /\ Rejected(2)
  /\ probe.of[1].responses = 1 /\ probe.of[2].responses = 1
  /\ probe.of[1].logged = 0 /\ probe.of[2].logged = 1
  /\ probe.of[2].status = 500

---------------------------------------------------------------------------
(* Reports whose tracker calls all settle in the end *)

\* the tracker call invocation c waits on settles, one way or another
TrackerSettles(c) ==
  \/ \E ok \in BOOLEAN : CreateCommentSettles(c, ok)
  \/ \E ok \in BOOLEAN : CreateIssueSettles(c, ok)
  \/ \E outcome \in {"issue", "none", "reject"} : IssueArrives(c, outcome)

SpecSettling ==
  InitRecord /\ [][NextRecord]_vars /\ \A c \in Calls : WF_vars(TrackerSettles(c))

---------------------------------------------------------------------------
(* C39: an invocation waits for its own tracker call and for nothing else: *)
(* a report is admitted however many are in flight, an invocation in       *)
(* flight can resume whatever the others do, it leaves its await only in a *)
(* step in which its tracker call settles (never through the clock), and   *)
(* when every tracker call settles in the end every invocation resolves or *)
(* rejects.                                                                *)

C39_WaitsOnNothingElse ==
  \A c \in Calls :
    /\ (calls[c].pc = "idle" /\ \A d \in Calls : d < c => calls[d].pc # "idle")
         => ENABLED ReportAgain(c)
    /\ calls[c].pc = "awaitComment" => ENABLED CreateCommentSettles(c, TRUE)
    /\ calls[c].pc = "awaitCreateIssue" => ENABLED CreateIssueSettles(c, TRUE)
    /\ calls[c].pc = "awaitIssue" => ENABLED IssueArrives(c, "issue")

C39_SettlesWithItsCall ==
  \A c \in Calls :
    /\ (InFlight(c) /\ calls'[c] # calls[c]) =>
         /\ now' = now
         /\ \A d \in Calls \ {c} : calls'[d] = calls[d]
         /\ \/ calls[c].pc = "awaitCreateIssue" /\ calls'[c].pc = "awaitIssue"
            \/ Settled(c)'
    /\ Settled(c) => calls'[c] = calls[c]

C39_NoQueueNoTimeout ==
  /\ []C39_WaitsOnNothingElse
  /\ [][C39_SettlesWithItsCall]_vars
  /\ \A c \in Calls : InFlight(c) ~> Settled(c)

\* three overlapping invocations have all settled, a duplicate among them,
\* without the clock moving
C39_Witness ==
  /\ \A c \in Calls : Settled(c)
  /\ ~serial /\ now = 0
  /\ ReturnedDuplicate(3)
  /\ calls[3].commentCount = 2

---------------------------------------------------------------------------
(* LinearClient with a faults config: reportFault/reportError go to the    *)
(* fault manager the client holds, and setAccessToken() replaces it *)

\* calls of setAccessToken() in a behaviour
MaxTokens == 1

\* setAccessToken keeping the fault manager it has
managerAfterToken_kept(cache) == cache

\* the cache of the fault manager after setAccessToken(): a new FaultManager
managerAfterToken(cache) == EmptyMap

\* the client's history: how many managers it has replaced, the caches of
\* those (invocations in flight still hold them), the manager each
\* invocation was made on, and the fingerprints reported since the last
\* setAccessToken()
NewClient ==
  [stage |-> "client", replaced |-> 0, retired |-> <<>>,
   on |-> [c \in Calls |-> -1], since |-> {}]

InitClient ==
  /\ FaultInit /\ CallerInit /\ HookInit
  /\ probe = NewClient

\* reportFault(r) / reportError(): report() on the manager the client holds
ClientReports(c, r) ==
  /\ c <= MaxTracked
  /\ ReportStep(c, r)
  /\ probe' = [probe EXCEPT !.on[c] = probe.replaced,
                            !.since = @ \cup {generateFaultHash(r)}]
  /\ UNCHANGED <<callerVars, hookVars>>

\* the created issue of an invocation on the manager the client holds
ClientIssueSettles(c, outcome) ==
  /\ probe.on[c] = probe.replaced
  /\ IssueSettles(c, outcome)

\* the created issue of an invocation on a manager the client has replaced:
\* the record goes to that manager's cache
RetiredIssueSettles(c, outcome) ==
  /\ calls[c].pc = "awaitIssue"
  /\ probe.on[c] < probe.replaced
  /\ LET id == Len(issues) + 1
         old == probe.on[c] + 1
     IN /\ calls' = [calls EXCEPT ![c] = issueSettled(@, outcome, id)]
        /\ issues' = IF outcome = "issue" THEN Append(issues, c) ELSE issues
        /\ probe' = [probe EXCEPT !.retired[old] =
                       cacheAfterIssue(@, calls[c].hash, outcome, id, now)]
  /\ UNCHANGED <<config, faultCache, now, lastEvent, lastSighting, serial, cleared>>
  /\ UNCHANGED <<callerVars, hookVars>>

\* setAccessToken(token) with options.faults present
SetAccessToken ==
  /\ probe.replaced < MaxTokens
  /\ faultCache' = managerAfterToken(faultCache)
  /\ probe' = [probe EXCEPT !.replaced = @ + 1,
                            !.retired = Append(@, faultCache),
                            !.since = {}]
  /\ UNCHANGED <<config, calls, issues, now, lastEvent, lastSighting, serial, cleared>>
  /\ UNCHANGED <<callerVars, hookVars>>

NextClient ==
  \/ \E c \in Calls, r \in Reports : ClientReports(c, r)
  \/ \E c \in Calls, ok \in BOOLEAN : CreateCommentSettles(c, ok)
  \/ \E c \in Calls, ok \in BOOLEAN : CreateIssueSettles(c, ok)
  \/ \E c \in Calls, outcome \in {"issue", "none", "reject"} : ClientIssueSettles(c, outcome)
  \/ \E c \in Calls, outcome \in {"issue", "none", "reject"} : RetiredIssueSettles(c, outcome)
  \/ SetAccessToken
  \/ Tick

SpecClient == InitClient /\ [][NextClient]_vars

---------------------------------------------------------------------------
(* C40: setAccessToken() leaves the client with a fault manager whose      *)
(* cache is empty, and the first report of a fingerprint after it goes     *)
(* down the fresh path, whatever was cached before and whatever the        *)
(* invocations still in flight on the old manager do; the ticket it        *)
(* creates is a new one.                                                   *)

C40_TokenEmptiesCache ==
  probe'.replaced # probe.replaced =>
    /\ faultCache' = EmptyMap
    /\ calls' = calls /\ config' = config

C40_FirstReportIsFresh ==
  \A c \in Calls, h \in Hashes :
    (Starts(c, h) /\ probe.replaced > 0 /\ h \notin probe.since)
    => /\ TookFreshPath(calls'[c])
       /\ calls'[c].pc = "awaitCreateIssue"

C40_NewTicket ==
  \A c \in Calls :
    (calls[c].pc = "awaitIssue" /\ calls'[c].pc = "resolved")
    => /\ calls'[c].result.issueId = Len(issues) + 1
       /\ \A h \in DOMAIN faultCache : faultCache[h].issueId # calls'[c].result.issueId
       /\ \A i \in DOMAIN probe.retired :
            \A h \in DOMAIN probe.retired[i] :
              probe.retired[i][h].issueId # calls'[c].result.issueId

C40_TokenResetsDedup ==
  [][C40_TokenEmptiesCache /\ C40_FirstReportIsFresh /\ C40_NewTicket]_vars

\* ticket 1 was cached and still within its window when the token was set;
\* the report of the same fault that followed created ticket 2
C40_Witness ==
  /\ config.deduplicate /\ probe.replaced = 1
  /\ ReturnedFresh(1) /\ ReturnedFresh(2)
  /\ calls[1].hash = calls[2].hash
  /\ calls[1].result.issueId = 1 /\ calls[2].result.issueId = 2
  /\ probe.on[1] = 0 /\ probe.on[2] = 1
  /\ calls[1].hash \in DOMAIN probe.retired[1]
  /\ probe.retired[1][calls[1].hash].issueId = 1
  /\ now - probe.retired[1][calls[1].hash].lastSeen <= config.dedupeWindow

====
